---- MODULE Spec2Model ----
(***************************************************************************)
(* Model of the ticket-drafting CLI: text helpers, branch naming           *)
(* (domain/branch.rs), the draft cache (cache.rs), the Gemini draft        *)
(* generator (infra/llm.rs) and the workflow (workflow/ticket.rs).         *)
(*                                                                         *)
(* Text is modelled as a sequence of one-character strings.                *)
(***************************************************************************)
EXTENDS Integers, Sequences, FiniteSets, TLC

VARIABLES
    br,          \* branch naming: the caller's text and the last call's result
    entries,     \* TicketDraftCache.file.entries of the cache in memory
    cop,         \* cache: the last call and what it returned
    fresh,       \* cache: number of distinct keys inserted so far
    overwrites,  \* cache: number of inserts of a key that was present
    ck,          \* cache key: the last compute_key calls and their keys
    dt,          \* draft generator: the last draft_ticket call and its outcome
    wf,          \* workflow: the current run of create_ticket_from_changes
    runs,        \* workflow: number of runs started
    file,        \* the cache file on disk
    tickets,     \* issue tracker: number of tickets created
    head,        \* repository: the branch checked out by the tool, if any
    hs,          \* heuristic draft: the caller's ChangeSummary and the last result
    jr,          \* JiraClient: the last create_ticket call and what it did
    vc,          \* version control: the git output typed so far, the last call
    instances    \* two instances of the tool on one cache file, and their log

cacheVars == <<entries, cop, fresh, overwrites>>

wfVars == <<wf, runs, file, tickets, head>>

vars == <<br, entries, cop, fresh, overwrites, ck, dt, wf, runs, file, tickets, head, hs, jr, vc, instances>>

(***************************************************************************)
(* Bounds of the model                                                     *)
(***************************************************************************)
\* longest generated input text for slugify / from_parts
MaxLen == 4

\* number of words a caller puts into a change summary
MaxWords == 2

\* number of distinct keys a caller inserts into one cache
MaxKeys == 40

\* number of times a caller re-inserts a key that is present
MaxOverwrites == 1

\* longest text of braces and prose in a model answer
MaxBraceLen == 3

\* longest summary and board text given to compute_key
MaxKeyText == 2

\* largest files_changed given to compute_key
MaxFiles == 12

\* number of runs of the workflow against one cache file
MaxRuns == 2

(***************************************************************************)
(* Characters and text primitives (Rust std: char / str)                   *)
(***************************************************************************)
LowerSeq == <<"a","b","c","d","e","f","g","h","i","j","k","l","m",
              "n","o","p","q","r","s","t","u","v","w","x","y","z">>

UpperSeq == <<"A","B","C","D","E","F","G","H","I","J","K","L","M",
              "N","O","P","Q","R","S","T","U","V","W","X","Y","Z">>

LowerChars == {LowerSeq[i] : i \in 1..26}

UpperChars == {UpperSeq[i] : i \in 1..26}

DigitChars == {"0","1","2","3","4","5","6","7","8","9"}

\* char::is_ascii_alphanumeric
IsAsciiAlphanumeric(c) == c \in LowerChars \cup UpperChars \cup DigitChars

\* char::is_whitespace (the white-space characters the model uses)
IsWhitespace(c) == c \in {" ", "\n", "\t"}

\* char::to_ascii_lowercase
ToAsciiLowercase(c) ==
    IF c \in UpperChars
    THEN LowerSeq[CHOOSE i \in 1..26 : UpperSeq[i] = c]
    ELSE c

\* char lowercase mapping used by str::to_lowercase (Unicode aware)
ToLowercaseChar(c) == IF c = "É" THEN "é" ELSE ToAsciiLowercase(c)

\* str::to_lowercase
ToLowercase(s) == [i \in 1..Len(s) |-> ToLowercaseChar(s[i])]

SetMin(S) == CHOOSE x \in S : \A y \in S : x <= y

SetMax(S) == CHOOSE x \in S : \A y \in S : y <= x

\* str::trim : strip leading and trailing white space
Trim(s) ==
    LET keep == {i \in 1..Len(s) : ~IsWhitespace(s[i])}
    IN  IF keep = {} THEN <<>> ELSE SubSeq(s, SetMin(keep), SetMax(keep))

\* str::trim_start_matches(char::is_whitespace)
TrimStart(s) ==
    LET keep == {i \in 1..Len(s) : ~IsWhitespace(s[i])}
    IN  IF keep = {} THEN <<>> ELSE SubSeq(s, SetMin(keep), Len(s))

\* str::trim_end
TrimEnd(s) ==
    LET keep == {i \in 1..Len(s) : ~IsWhitespace(s[i])}
    IN  IF keep = {} THEN <<>> ELSE SubSeq(s, 1, SetMax(keep))

\* all texts over alphabet A of length at most n
RECURSIVE TextsUpTo(_, _)
TextsUpTo(A, n) ==
    IF n = 0 THEN {<<>>}
    ELSE LET shorter == TextsUpTo(A, n - 1)
         IN  shorter \cup {Append(t, c) : t \in shorter, c \in A}

(***************************************************************************)
(* domain/branch.rs                                                        *)
(***************************************************************************)
BranchCategory == {"Feature", "Fix", "Quality"}

\* BranchCategory::as_str
as_str(category) ==
    CASE category = "Feature" -> <<"f","e","a","t","u","r","e">>
      [] category = "Fix"     -> <<"f","i","x">>
      [] category = "Quality" -> <<"q","u","a","l","i","t","y">>

None == [some |-> FALSE]

Some(v) == [some |-> TRUE, val |-> v]

\* mutant: the name is compared as it is written
from_str_case_sensitive(value) ==
    LET v == Trim(value)
    IN  CASE v = <<"f","e","a","t","u","r","e">> -> Some("Feature")
          [] v = <<"f","i","x">>                 -> Some("Fix")
          [] v = <<"q","u","a","l","i","t","y">> -> Some("Quality")
          [] OTHER                               -> None

\* BranchCategory::from_str
from_str(value) ==
    LET v == ToLowercase(Trim(value))
    IN  CASE v = <<"f","e","a","t","u","r","e">> -> Some("Feature")
          [] v = <<"f","i","x">>                 -> Some("Fix")
          [] v = <<"q","u","a","l","i","t","y">> -> Some("Quality")
          [] OTHER                               -> None

\* slugify, first pass: the per-character map
slugify_clean(input) ==
    [i \in 1..Len(input) |->
        IF IsAsciiAlphanumeric(input[i])
        THEN ToAsciiLowercase(input[i])
        ELSE "-"]

\* str::trim_matches('-')
slugify_trim(clean) ==
    LET keep == {i \in 1..Len(clean) : clean[i] # "-"}
    IN  IF keep = {} THEN <<>> ELSE SubSeq(clean, SetMin(keep), SetMax(keep))

\* mutant: runs of dashes are kept
slugify_collapse_none(trimmed, i, prev_dash, result) == trimmed

\* slugify, the loop that drops a dash following a dash
RECURSIVE slugify_collapse(_, _, _, _)
slugify_collapse(trimmed, i, prev_dash, result) ==
    IF i > Len(trimmed) THEN result
    ELSE IF trimmed[i] = "-"
         THEN slugify_collapse(trimmed, i + 1, TRUE,
                  IF prev_dash THEN result ELSE Append(result, "-"))
         ELSE slugify_collapse(trimmed, i + 1, FALSE, Append(result, trimmed[i]))

\* mutant: a placeholder that is not itself a slug
Placeholder_capital == <<"S","u","m","m","a","r","y">>

\* the token slugify returns for a text without ASCII alphanumerics
Placeholder == <<"s","u","m","m","a","r","y">>

\* slugify
slugify(input) ==
    LET result == slugify_collapse(slugify_trim(slugify_clean(input)), 1, FALSE, <<>>)
    IN  IF result = <<>> THEN Placeholder ELSE result

\* mutant: the ticket key is used as given
from_parts_untrimmed(category, ticket_key, summary) ==
    as_str(category) \o <<"/">> \o ticket_key \o <<"/">> \o slugify(summary)

\* BranchName::from_parts
from_parts(category, ticket_key, summary) ==
    as_str(category) \o <<"/">> \o Trim(ticket_key) \o <<"/">> \o slugify(summary)

(***************************************************************************)
(* Branch naming: inputs                                                   *)
(***************************************************************************)
\* one character of each class slugify distinguishes: lower-case letter,
\* upper-case letter, digit, dash, white space, ASCII punctuation,
\* non-ASCII letter
SlugAlphabet == {"a", "B", "7", "-", " ", "_", "é"}

\* tests::slugifies_branch_name
ExampleSummary ==
    <<"A","d","d"," ","G","i","t"," ","i","n","t","e","g","r","a","t","i","o","n",
      " ","f","o","r"," ","c","h","e","c","k","o","u","t">>

ExampleTicketKey == <<"T","C","K","-","1","2">>

ExampleBranch ==
    <<"f","e","a","t","u","r","e","/","T","C","K","-","1","2","/",
      "a","d","d","-","g","i","t","-","i","n","t","e","g","r","a","t","i","o","n",
      "-","f","o","r","-","c","h","e","c","k","o","u","t">>

WeirdSummary ==
    <<" "," ","-","-","W","e","i","r","d","_","_","C","h","a","r","s","/","/",
      "h","e","r","e","-","-"," "," ">>

TicketKeys ==
    { ExampleTicketKey,
      <<" ","T","C","K","-","1","2","\n">>,
      <<"\t","A"," ","1"," ">>,
      <<" "," ">> }

(***************************************************************************)
(* Branch naming: operations                                               *)
(***************************************************************************)
BrIdle == br = [op |-> "none", input |-> <<>>]

CacheIdle ==
    /\ entries = <<>>
    /\ cop = [op |-> "none"]
    /\ fresh = 0
    /\ overwrites = 0

KeyIdle == ck = [op |-> "none"]

DraftIdle == dt = [op |-> "none"]

HsIdle == hs = [op |-> "none", summary |-> <<>>, words |-> 0]

JrIdle == jr = [op |-> "none"]

VcIdle == vc = [op |-> "none", status |-> <<>>]

InstIdle == instances = <<>>

WfIdle ==
    /\ wf = [pc |-> "idle"]
    /\ runs = 0
    /\ file = [state |-> "missing"]
    /\ tickets = 0
    /\ head = [some |-> FALSE]

BrInit == BrIdle /\ CacheIdle /\ KeyIdle /\ DraftIdle /\ HsIdle /\ JrIdle /\ VcIdle /\ InstIdle /\ WfIdle

\* the caller's text grows by one character
TypeChar(c) ==
    /\ br.op = "none"
    /\ Len(br.input) < MaxLen
    /\ br' = [br EXCEPT !.input = Append(@, c)]
    /\ UNCHANGED <<entries, cop, fresh, overwrites, ck, dt, wfVars, hs, jr, vc, instances>>

\* the caller's text is one of the documented examples
TakeExample(x) ==
    /\ br.op = "none"
    /\ br.input = <<>>
    /\ br' = [br EXCEPT !.input = x]
    /\ UNCHANGED <<entries, cop, fresh, overwrites, ck, dt, wfVars, hs, jr, vc, instances>>

\* the caller slugifies its text
Slugify ==
    /\ br.op = "none"
    /\ br' = [op |-> "slugify", input |-> br.input, out |-> slugify(br.input),
              again |-> FALSE]
    /\ UNCHANGED <<entries, cop, fresh, overwrites, ck, dt, wfVars, hs, jr, vc, instances>>

\* the caller slugifies the slug it got
SlugifyAgain ==
    /\ br.op = "slugify"
    /\ ~br.again
    /\ br' = [op |-> "slugify", input |-> br.out, out |-> slugify(br.out),
              again |-> TRUE]
    /\ UNCHANGED <<entries, cop, fresh, overwrites, ck, dt, wfVars, hs, jr, vc, instances>>

\* the caller builds a branch name with its text as the summary
FromParts(category, ticket_key) ==
    /\ br.op = "none"
    /\ br' = [op |-> "from_parts", category |-> category, ticket_key |-> ticket_key,
              summary |-> br.input,
              out |-> from_parts(category, ticket_key, br.input)]
    /\ UNCHANGED <<entries, cop, fresh, overwrites, ck, dt, wfVars, hs, jr, vc, instances>>

\* the caller parses its text as a category
FromStr ==
    /\ br.op = "none"
    /\ br' = [op |-> "from_str", input |-> br.input, out |-> from_str(br.input)]
    /\ UNCHANGED <<entries, cop, fresh, overwrites, ck, dt, wfVars, hs, jr, vc, instances>>

\* the caller parses the name of a category
AsStrFromStr(category) ==
    /\ br.op = "none"
    /\ br.input = <<>>
    /\ br' = [op |-> "as_str", input |-> <<>>, category |-> category,
              name |-> as_str(category), out |-> from_str(as_str(category))]
    /\ UNCHANGED <<entries, cop, fresh, overwrites, ck, dt, wfVars, hs, jr, vc, instances>>

\* spellings of the three names
CategorySpellings ==
    {<<"f","i","x">>, <<"F","i","x">>, <<"f","I","x">>, <<"f","i","X">>, <<"F","I","x">>,
     <<"F","i","X">>, <<"f","I","X">>, <<"F","I","X">>,
     <<"f","e","a","t","u","r","e">>, <<"F","e","a","t","u","r","e">>,
     <<"F","E","A","T","U","R","E">>, <<"f","e","a","T","u","r","E">>,
     <<"q","u","a","l","i","t","y">>, <<"Q","u","a","l","i","t","y">>,
     <<"Q","U","A","L","I","T","Y">>, <<"q","U","a","l","I","t","y">>}

\* texts that are no name of a category
OtherCategoryTexts ==
    {<<"u","n","k","n","o","w","n">>, <<"f","i","x","x">>, <<"f","i">>, <<"f"," ","i","x">>,
     <<"f","i","x","e","s">>, <<"b","u","g">>, <<"f","é","a","t","u","r","e">>,
     <<"f","e","a","t","u","r","e","/","f","i","x">>, <<"q","u","a","l","i","t","y","-">>,
     <<"F","I","X","_">>}

\* white space around a text
Paddings == {<<>>, <<" ">>, <<"\n">>, <<"\t"," ">>}

CategoryTexts ==
    {before \o text \o after :
        before \in Paddings, after \in Paddings,
        text \in CategorySpellings \cup OtherCategoryTexts}

BrTakeCategoryText == \E x \in CategoryTexts : TakeExample(x)

BrAsStrFromStr == \E category \in BranchCategory : AsStrFromStr(category)

BrTypeChar == \E c \in SlugAlphabet : TypeChar(c)

BrTakeExample == \E x \in {ExampleSummary, WeirdSummary} : TakeExample(x)

BrFromParts ==
    \E category \in BranchCategory, ticket_key \in TicketKeys :
        FromParts(category, ticket_key)

NextBranch ==
    \/ BrTypeChar
    \/ BrTakeExample
    \/ Slugify
    \/ SlugifyAgain
    \/ BrFromParts
    \/ BrTakeCategoryText
    \/ FromStr
    \/ BrAsStrFromStr

SpecBranch == BrInit /\ [][NextBranch]_vars

(***************************************************************************)
(* Branch naming: properties                                               *)
(***************************************************************************)
\* C7: slugify is idempotent: slugifying a slug returns that slug, also when
\* the slug is the placeholder token.
C7_SlugifyIdempotent ==
    (br.op = "slugify" /\ br.again) => br.out = br.input

C7_Witness ==
    /\ br.op = "slugify"
    /\ br.again
    /\ br.input = <<"s","u","m","m","a","r","y">>
    /\ br.out = br.input

\* positions of the ASCII alphanumeric characters of a text
AlnumPositions(s) == {i \in 1..Len(s) : IsAsciiAlphanumeric(s[i])}

SlugChars == LowerChars \cup DigitChars \cup {"-"}

\* the alphanumeric characters of out are those of input, lower-cased and in
\* order, and a single dash stands exactly where input had separators between
\* two of them
SeparatedLike(input, out) ==
    LET ip == AlnumPositions(input)
        op == AlnumPositions(out)
        nth(P, n) == CHOOSE p \in P : Cardinality({q \in P : q < p}) = n - 1
    IN  /\ Cardinality(ip) = Cardinality(op)
        /\ \A n \in 1..Cardinality(ip) :
             /\ out[nth(op, n)] = ToAsciiLowercase(input[nth(ip, n)])
             /\ n > 1 =>
                  ((nth(op, n) = nth(op, n - 1) + 2) <=> (nth(ip, n) > nth(ip, n - 1) + 1))
             /\ n > 1 =>
                  ((nth(op, n) = nth(op, n - 1) + 1) <=> (nth(ip, n) = nth(ip, n - 1) + 1))

\* C8: a slug is non-empty, made of lower-case ASCII letters, digits and
\* dashes, with no leading, trailing or doubled dash; every character that is
\* not ASCII alphanumeric separates; a text without ASCII alphanumerics gives
\* the placeholder "summary".
C8_SlugShape ==
    br.op = "slugify" =>
        /\ br.out # <<>>
        /\ \A i \in 1..Len(br.out) : br.out[i] \in SlugChars
        /\ br.out[1] # "-"
        /\ br.out[Len(br.out)] # "-"
        /\ \A i \in 1..(Len(br.out) - 1) : ~(br.out[i] = "-" /\ br.out[i + 1] = "-")
        /\ IF AlnumPositions(br.input) = {}
           THEN br.out = <<"s","u","m","m","a","r","y">>
           ELSE SeparatedLike(br.input, br.out)

C8_Witness ==
    /\ br.op = "slugify"
    /\ br.input = WeirdSummary
    /\ br.out = <<"w","e","i","r","d","-","c","h","a","r","s","-","h","e","r","e">>

CanonicalName ==
    [c \in BranchCategory |->
        CASE c = "Feature" -> <<"f","e","a","t","u","r","e">>
          [] c = "Fix"     -> <<"f","i","x">>
          [] c = "Quality" -> <<"q","u","a","l","i","t","y">>]

\* mid is key without its surrounding white space, and nothing else changed
IsTrimOf(mid, key) ==
    /\ mid # <<>> => (~IsWhitespace(mid[1]) /\ ~IsWhitespace(mid[Len(mid)]))
    /\ \E a \in 0..Len(key) :
          /\ a + Len(mid) <= Len(key)
          /\ SubSeq(key, a + 1, a + Len(mid)) = mid
          /\ \A i \in 1..Len(key) :
                (i <= a \/ i > a + Len(mid)) => IsWhitespace(key[i])

\* C9: from_parts is the canonical category name, "/", the ticket key without
\* surrounding white space and otherwise unmodified, "/", slugify(summary);
\* the last segment is never empty; the repository's test example holds.
C9_FromParts ==
    br.op = "from_parts" =>
        LET name == CanonicalName[br.category]
            slug == slugify(br.summary)
            midLen == Len(br.out) - Len(name) - Len(slug) - 2
        IN  /\ slug # <<>>
            /\ midLen >= 0
            /\ SubSeq(br.out, 1, Len(name)) = name
            /\ br.out[Len(name) + 1] = "/"
            /\ IsTrimOf(SubSeq(br.out, Len(name) + 2, Len(name) + 1 + midLen),
                        br.ticket_key)
            /\ br.out[Len(name) + 2 + midLen] = "/"
            /\ SubSeq(br.out, Len(name) + 3 + midLen, Len(br.out)) = slug
            /\ (br.category = "Feature" /\ br.ticket_key = ExampleTicketKey
                  /\ br.summary = ExampleSummary) => br.out = ExampleBranch

C9_Witness ==
    /\ br.op = "from_parts"
    /\ br.summary = ExampleSummary
    /\ br.out = ExampleBranch

(***************************************************************************)
(* cache.rs                                                                *)
(***************************************************************************)
CACHE_LIMIT == 32

DigitSeq == <<"0","1","2","3","4","5","6","7","8","9">>

\* usize::to_string : decimal text
RECURSIVE ToDecimal(_)
ToDecimal(n) ==
    IF n < 10 THEN <<DigitSeq[n + 1]>>
    ELSE ToDecimal(n \div 10) \o <<DigitSeq[(n % 10) + 1]>>

\* blake3::Hasher::update : the hasher has seen the concatenation of its
\* inputs.  Bytes are modelled by characters: UTF-8 is a prefix code, so two
\* texts have equal bytes exactly if they have equal characters.
HasherUpdate(hasher, bytes) == hasher \o bytes

\* Hasher::finalize().to_hex() : the hash is taken as injective, a key is
\* identified by the bytes that were hashed
HasherFinalizeHex(hasher) == [blake3 |-> hasher]

\* TicketDraftCache::compute_key
compute_key(summary, files_changed, board) ==
    LET h1 == HasherUpdate(<<>>, summary)
        h2 == HasherUpdate(h1, ToDecimal(files_changed))
        h3 == IF board.some THEN HasherUpdate(h2, board.val) ELSE h2
    IN  HasherFinalizeHex(h3)

\* the CacheEntry insert stores for a draft
CacheEntryOf(key, draft) ==
    [key |-> key,
     title |-> draft.title,
     description |-> draft.description,
     branch_category |-> as_str(draft.branch_category),
     branch_summary |-> draft.branch_summary]

\* mutant: an entry with an unknown category is a miss
get_unknown_is_miss(es, key) ==
    LET found == {i \in 1..Len(es) : es[i].key = key}
    IN  IF found = {} THEN None
        ELSE LET entry == es[SetMin(found)]
                 parsed == from_str(entry.branch_category)
             IN  IF ~parsed.some THEN None
                 ELSE Some([title |-> entry.title,
                            description |-> entry.description,
                            branch_category |-> parsed.val,
                            branch_summary |-> entry.branch_summary])

\* TicketDraftCache::get : the returned Option<TicketDraft>
get(es, key) ==
    LET found == {i \in 1..Len(es) : es[i].key = key}
    IN  IF found = {} THEN None
        ELSE LET entry == es[SetMin(found)]
                 parsed == from_str(entry.branch_category)
             IN  Some([title |-> entry.title,
                       description |-> entry.description,
                       branch_category |-> IF parsed.some THEN parsed.val ELSE "Feature",
                       branch_summary |-> entry.branch_summary])

\* mutant: a hit moves the entry to the back (least recently used order)
get_self_lru(es, key) ==
    LET found == {i \in 1..Len(es) : es[i].key = key}
    IN  IF found = {} THEN es
        ELSE Append(SelectSeq(es, LAMBDA e : e.key # key), es[SetMin(found)])

\* TicketDraftCache::get takes &self : the entries after the call
get_self(es, key) == es

\* mutant: the overflow is drained once the limit is reached, not exceeded
insert_early_drain(es, key, draft) ==
    LET retained == SelectSeq(es, LAMBDA e : e.key # key)
        pushed == Append(retained, CacheEntryOf(key, draft))
    IN  IF Len(pushed) >= CACHE_LIMIT
        THEN SubSeq(pushed, Len(pushed) - CACHE_LIMIT + 2, Len(pushed))
        ELSE pushed

\* mutant: an entry with the same key is not removed first
insert_no_retain(es, key, draft) ==
    LET pushed == Append(es, CacheEntryOf(key, draft))
    IN  IF Len(pushed) > CACHE_LIMIT
        THEN SubSeq(pushed, Len(pushed) - CACHE_LIMIT + 1, Len(pushed))
        ELSE pushed

\* TicketDraftCache::insert : the entries after the call
insert(es, key, draft) ==
    LET retained == SelectSeq(es, LAMBDA e : e.key # key)
        pushed == Append(retained, CacheEntryOf(key, draft))
    IN  IF Len(pushed) > CACHE_LIMIT
        THEN SubSeq(pushed, (Len(pushed) - CACHE_LIMIT) + 1, Len(pushed))
        ELSE pushed

(***************************************************************************)
(* Cache: inputs                                                           *)
(***************************************************************************)
\* the i-th distinct key a caller uses: the key of i changed files
CacheKey(i) == compute_key(<<>>, i, None)

DraftA ==
    [title |-> <<"A","d","d"," ","x">>, description |-> <<"d","1">>,
     branch_category |-> "Feature", branch_summary |-> <<"x">>]

DraftB ==
    [title |-> <<"F","i","x"," ","y">>, description |-> <<"d","2">>,
     branch_category |-> "Fix", branch_summary |-> <<"y">>]

\* the entries a caller re-inserts: the oldest, the middle and the newest
OverwritePositions(es) ==
    IF es = <<>> THEN {} ELSE {1, (Len(es) + 1) \div 2, Len(es)}

(***************************************************************************)
(* Cache: operations                                                       *)
(***************************************************************************)
\* the key the call just before returned a draft for, if it was a get
LastHit == IF cop.op = "get" /\ cop.result.some THEN Some(cop.key) ELSE None

\* insert of a key that was never inserted
InsertFresh ==
    /\ fresh < MaxKeys
    /\ entries' = insert(entries, CacheKey(fresh + 1), DraftA)
    /\ fresh' = fresh + 1
    /\ cop' = [op |-> "insert", key |-> CacheKey(fresh + 1), draft |-> DraftA,
               present |-> FALSE, after_hit |-> LastHit]
    /\ UNCHANGED <<overwrites, br, ck, dt, wfVars, hs, jr, vc, instances>>

\* insert of a key that is present, with another draft
InsertPresent(pos) ==
    /\ overwrites < MaxOverwrites
    /\ pos \in OverwritePositions(entries)
    /\ entries' = insert(entries, entries[pos].key, DraftB)
    /\ overwrites' = overwrites + 1
    /\ cop' = [op |-> "insert", key |-> entries[pos].key, draft |-> DraftB,
               present |-> TRUE, after_hit |-> LastHit]
    /\ UNCHANGED <<fresh, br, ck, dt, wfVars, hs, jr, vc, instances>>

\* lookup of a key
CacheGet(i) ==
    /\ entries' = get_self(entries, CacheKey(i))
    /\ cop' = [op |-> "get", key |-> CacheKey(i), result |-> get(entries, CacheKey(i))]
    /\ UNCHANGED <<fresh, overwrites, br, ck, dt, wfVars, hs, jr, vc, instances>>

CacheInsertPresent == \E pos \in 1..CACHE_LIMIT : InsertPresent(pos)

CacheLookup == \E i \in 1..(MaxKeys + 1) : CacheGet(i)

CacheInit == BrIdle /\ CacheIdle /\ KeyIdle /\ DraftIdle /\ HsIdle /\ JrIdle /\ VcIdle /\ InstIdle /\ WfIdle

\* a caller inserts distinct keys in sequence and looks keys up
NextCache ==
    \/ InsertFresh
    \/ CacheLookup

SpecCache == CacheInit /\ [][NextCache]_vars

\* a caller inserts keys, some of them again
NextCacheOverwrite ==
    \/ InsertFresh
    \/ CacheInsertPresent

SpecCacheOverwrite == CacheInit /\ [][NextCacheOverwrite]_vars

(***************************************************************************)
(* Cache: properties                                                       *)
(***************************************************************************)
\* C3: after n distinct keys inserted in sequence into an empty cache, get
\* returns a draft for exactly the min(n, 32) most recent keys and nothing
\* for the older ones; the cache never holds more than 32 entries.
C3_CacheBound ==
    /\ Len(entries) <= 32
    /\ \A i \in 1..(MaxKeys + 1) :
          get(entries, CacheKey(i)).some <=> (i <= fresh /\ i > fresh - 32)
    /\ \A i \in 1..fresh : i > fresh - 32 => get(entries, CacheKey(i)) = Some(DraftA)

C3_Witness ==
    /\ fresh = 40
    /\ Len(entries) = 32
    /\ ~get(entries, CacheKey(8)).some
    /\ get(entries, CacheKey(9)).some
    /\ get(entries, CacheKey(40)).some

KeysOf(es) == {es[i].key : i \in 1..Len(es)}

C5_GetKeepsOrder ==
    [][/\ cop'.op = "get" => entries' = entries
       /\ (/\ cop.op = "get"
           /\ cop.result.some
           /\ Len(entries) = 32
           /\ entries[1].key = cop.key
           /\ cop'.op = "insert"
           /\ ~cop'.present) => ~get(entries', cop.key).some
      ]_vars

C5_Witness ==
    /\ cop.op = "insert"
    /\ fresh = 34
    /\ cop.after_hit = Some(CacheKey(2))
    /\ ~get(entries, CacheKey(2)).some
    /\ get(entries, CacheKey(3)).some

(***************************************************************************)
(* infra/llm.rs : the heuristic draft                                      *)
(***************************************************************************)
\* str::contains(pattern)
Contains(text, pattern) ==
    \E i \in 0..(Len(text) - Len(pattern)) :
        SubSeq(text, i + 1, i + Len(pattern)) = pattern

\* str::split_whitespace : the maximal runs of non-white-space characters
RECURSIVE SplitWhitespaceFrom(_, _, _, _)
SplitWhitespaceFrom(text, i, word, words) ==
    IF i > Len(text)
    THEN IF word = <<>> THEN words ELSE Append(words, word)
    ELSE IF IsWhitespace(text[i])
         THEN SplitWhitespaceFrom(text, i + 1, <<>>,
                  IF word = <<>> THEN words ELSE Append(words, word))
         ELSE SplitWhitespaceFrom(text, i + 1, Append(word, text[i]), words)

SplitWhitespace(text) == SplitWhitespaceFrom(text, 1, <<>>, <<>>)

\* [String]::join(sep)
RECURSIVE Join(_, _)
Join(words, sep) ==
    IF words = <<>> THEN <<>>
    ELSE IF Len(words) = 1 THEN words[1]
         ELSE words[1] \o sep \o Join(Tail(words), sep)

\* Iterator::take(n)
Take(seq, n) == SubSeq(seq, 1, IF Len(seq) < n THEN Len(seq) ELSE n)

\* str::replace('-', " ")
ReplaceDashBySpace(text) == [i \in 1..Len(text) |-> IF text[i] = "-" THEN " " ELSE text[i]]

Txt_fix == <<"f","i","x">>

Txt_bug == <<"b","u","g">>

Txt_error == <<"e","r","r","o","r">>

Txt_refactor == <<"r","e","f","a","c","t","o","r">>

Txt_cleanup == <<"c","l","e","a","n","u","p">>

Txt_docs == <<"d","o","c","s">>

Txt_chore == <<"c","h","o","r","e">>

\* mutant: the Quality keywords are looked for before the Fix keywords
heuristic_category_quality_first(changes) ==
    LET lower == ToLowercase(changes.summary)
    IN  IF \/ Contains(lower, Txt_refactor)
           \/ Contains(lower, Txt_cleanup)
           \/ Contains(lower, Txt_docs)
           \/ Contains(lower, Txt_chore)
        THEN "Quality"
        ELSE IF \/ Contains(lower, Txt_fix)
                \/ Contains(lower, Txt_bug)
                \/ Contains(lower, Txt_error)
             THEN "Fix"
             ELSE "Feature"

\* heuristic_category
heuristic_category(changes) ==
    LET lower == ToLowercase(changes.summary)
    IN  IF Contains(lower, Txt_fix) \/ Contains(lower, Txt_bug) \/ Contains(lower, Txt_error)
        THEN "Fix"
        ELSE IF \/ Contains(lower, Txt_refactor)
                \/ Contains(lower, Txt_cleanup)
                \/ Contains(lower, Txt_docs)
                \/ Contains(lower, Txt_chore)
             THEN "Quality"
             ELSE "Feature"

Txt_pending_update == <<"p","e","n","d","i","n","g","-","u","p","d","a","t","e">>

\* the per-word map of heuristic_summary
heuristic_word(word) ==
    ToLowercase(SelectSeq(word, LAMBDA c : IsAsciiAlphanumeric(c) \/ c = "-"))

\* mutant: no placeholder when no word survives the filter
heuristic_summary_no_placeholder(changes) ==
    LET summary == Trim(changes.summary)
        firstWords == Take(SplitWhitespace(summary), 8)
        mapped == [i \in 1..Len(firstWords) |-> heuristic_word(firstWords[i])]
        words == SelectSeq(mapped, LAMBDA w : w # <<>>)
    IN  IF summary = <<>>
        THEN IF changes.files_changed = 0
             THEN Txt_pending_update
             ELSE <<"u","p","d","a","t","e","-">> \o ToDecimal(changes.files_changed)
                      \o <<"-","f","i","l","e","s">>
        ELSE Join(words, <<"-">>)

\* mutant: the words are filtered before the first 8 are taken
heuristic_summary_filter_first(changes) ==
    LET summary == Trim(changes.summary)
        allWords == SplitWhitespace(summary)
        mapped == [i \in 1..Len(allWords) |-> heuristic_word(allWords[i])]
        words == Take(SelectSeq(mapped, LAMBDA w : w # <<>>), 8)
    IN  IF summary = <<>>
        THEN IF changes.files_changed = 0
             THEN Txt_pending_update
             ELSE <<"u","p","d","a","t","e","-">> \o ToDecimal(changes.files_changed)
                      \o <<"-","f","i","l","e","s">>
        ELSE IF words = <<>> THEN Txt_pending_update ELSE Join(words, <<"-">>)

\* heuristic_summary
heuristic_summary(changes) ==
    LET summary == Trim(changes.summary)
        firstWords == Take(SplitWhitespace(summary), 8)
        mapped == [i \in 1..Len(firstWords) |-> heuristic_word(firstWords[i])]
        words == SelectSeq(mapped, LAMBDA w : w # <<>>)
    IN  IF summary = <<>>
        THEN IF changes.files_changed = 0
             THEN Txt_pending_update
             ELSE <<"u","p","d","a","t","e","-">> \o ToDecimal(changes.files_changed)
                      \o <<"-","f","i","l","e","s">>
        ELSE IF words = <<>> THEN Txt_pending_update ELSE Join(words, <<"-">>)

Txt_summarize ==
    <<"S","u","m","m","a","r","i","z","e"," ","t","h","e"," ","l","o","c","a","l"," ",
      "m","o","d","i","f","i","c","a","t","i","o","n","s"," ","b","e","f","o","r","e"," ",
      "c","r","e","a","t","i","n","g"," ","t","h","e"," ","t","i","c","k","e","t",".">>

Txt_summary_of ==
    <<"S","u","m","m","a","r","y"," ","o","f"," ","u","n","c","o","m","m","i","t","t","e","d",
      " ","w","o","r","k",":","\n">>

\* heuristic_ticket
heuristic_ticket(changes) ==
    LET branch_category == heuristic_category(changes)
        branch_summary == heuristic_summary(changes)
        description == IF changes.summary = <<>>
                       THEN Txt_summarize
                       ELSE Txt_summary_of \o changes.summary
        spaced == ReplaceDashBySpace(branch_summary)
        title == CASE branch_category = "Feature" -> <<"A","d","d"," ">> \o spaced
                   [] branch_category = "Fix"     -> <<"F","i","x"," ">> \o spaced
                   [] branch_category = "Quality" ->
                          <<"I","m","p","r","o","v","e"," ">> \o spaced
    IN  [title |-> title,
         description |-> description,
         branch_category |-> branch_category,
         branch_summary |-> branch_summary]

(***************************************************************************)
(* infra/llm.rs : the model's answer                                       *)
(***************************************************************************)
\* char::len_utf8 for the characters the model uses
ByteLen(c) == IF c \in {"é", "É"} THEN 2 ELSE 1

RECURSIVE TextByteLen(_)
TextByteLen(text) ==
    IF text = <<>> THEN 0 ELSE ByteLen(text[1]) + TextByteLen(Tail(text))

\* the number of whole characters in the first n bytes of text, or -1 when
\* byte n is inside a character (slicing there panics)
RECURSIVE CharsInBytes(_, _)
CharsInBytes(text, n) ==
    IF n = 0 THEN 0
    ELSE IF text = <<>> \/ ByteLen(text[1]) > n THEN -1
         ELSE LET rest == CharsInBytes(Tail(text), n - ByteLen(text[1]))
              IN  IF rest < 0 THEN -1 ELSE rest + 1

\* the character U+0060, which a string of this language cannot hold
Backtick == "BACKTICK"

Fence == <<Backtick, Backtick, Backtick>>

StartsWith(text, prefix) ==
    Len(text) >= Len(prefix) /\ SubSeq(text, 1, Len(prefix)) = prefix

EndsWith(text, suffix) ==
    Len(text) >= Len(suffix)
        /\ SubSeq(text, Len(text) - Len(suffix) + 1, Len(text)) = suffix

\* str::trim_start_matches(fence) : strips the prefix as often as it matches
RECURSIVE TrimStartFences(_)
TrimStartFences(text) ==
    IF StartsWith(text, Fence)
    THEN TrimStartFences(SubSeq(text, 4, Len(text)))
    ELSE text

\* str::eq_ignore_ascii_case
EqIgnoreAsciiCase(a, b) ==
    /\ Len(a) = Len(b)
    /\ \A i \in 1..Len(a) : ToAsciiLowercase(a[i]) = ToAsciiLowercase(b[i])

Returned(text) == [panic |-> FALSE, val |-> text]

Panicked == [panic |-> TRUE]

\* normalize_json_blob, lines 346-350: the text from the first '{' to the
\* last '}'.  The byte range start..=end is taken only if start <= end + 1.
normalize_braces(trimmed) ==
    LET opens == {i \in 1..Len(trimmed) : trimmed[i] = "{"}
        closes == {i \in 1..Len(trimmed) : trimmed[i] = "}"}
    IN  IF opens = {} \/ closes = {} THEN Returned(trimmed)
        ELSE IF SetMin(opens) > SetMax(closes) + 1 THEN Panicked
             ELSE Returned(SubSeq(trimmed, SetMin(opens), SetMax(closes)))

\* normalize_json_blob, lines 333-344: the text inside a code fence
normalize_fence(trimmed) ==
    LET t1 == TrimStart(TrimStartFences(trimmed))
        n4 == CharsInBytes(t1, 4)
        tagged == TextByteLen(t1) >= 4
        t2 == IF tagged /\ n4 >= 0 /\ EqIgnoreAsciiCase(SubSeq(t1, 1, n4), <<"j","s","o","n">>)
              THEN TrimStart(SubSeq(t1, n4 + 1, Len(t1)))
              ELSE t1
        t3 == TrimEnd(t2)
        t4 == IF EndsWith(t3, Fence) THEN TrimEnd(SubSeq(t3, 1, Len(t3) - 3)) ELSE t3
    IN  IF tagged /\ n4 < 0 THEN Panicked ELSE Returned(t4)

\* normalize_json_blob
normalize_json_blob(input) ==
    LET trimmed == Trim(input)
        inner == IF StartsWith(trimmed, Fence) THEN normalize_fence(trimmed)
                 ELSE Returned(trimmed)
    IN  IF inner.panic THEN Panicked ELSE normalize_braces(inner.val)

\* The text of a JSON object is modelled as '{', one character per member
\* value in the order title, description, branch_category, branch_summary,
\* and '}'.  These are the member values the model's answer can hold.
JsonText ==
    [v |-> <<"V","a","l">>,
     p |-> <<" ","V","a","l","\n">>,
     U |-> <<"A","d","d","-","X">>,
     b |-> <<" ">>,
     e |-> <<>>,
     f |-> <<"f","i","x">>,
     F |-> <<" ","F","I","X"," ">>,
     q |-> <<"q","u","a","l","i","t","y">>,
     Q |-> <<"Q","u","a","l","i","t","y">>,
     a |-> <<"f","e","a","t","u","r","e">>,
     u |-> <<"b","u","g","f","i","x">>]

\* serde_json::from_str::<GeminiDraft> : Some(draft) if the text is one JSON
\* object with the four members, None if it is anything else
parse_gemini_draft(text) ==
    LET t == Trim(text)
    IN  IF /\ Len(t) = 6
           /\ t[1] = "{"
           /\ t[6] = "}"
           /\ \A i \in 2..5 : t[i] \in DOMAIN JsonText
        THEN Some([title |-> JsonText[t[2]],
                   description |-> JsonText[t[3]],
                   branch_category |-> JsonText[t[4]],
                   branch_summary |-> JsonText[t[5]]])
        ELSE None

\* draft_ticket, lines 99-109: the first non-empty trimmed text part
RECURSIVE Flatten(_)
Flatten(seqs) == IF seqs = <<>> THEN <<>> ELSE seqs[1] \o Flatten(Tail(seqs))

candidate_text(candidates) ==
    LET contents == SelectSeq(candidates, LAMBDA c : c.content.some)
        parts == Flatten([i \in 1..Len(contents) |-> contents[i].content.val])
        withText == SelectSeq(parts, LAMBDA part : part.text.some)
        texts == [i \in 1..Len(withText) |-> Trim(withText[i].text.val)]
        nonEmpty == SelectSeq(texts, LAMBDA t : t # <<>>)
    IN  IF nonEmpty = <<>> THEN None ELSE Some(nonEmpty[1])

Ok(draft) == [kind |-> "Ok", draft |-> draft]

Err(error) == [kind |-> "Err", error |-> error]

Panic == [kind |-> "Panic"]

\* what a call of draft_ticket did: its result, whether it sent the request
\* and whether it built the heuristic ticket
Outcome(result, sent, heuristic) ==
    [result |-> result, sent |-> sent, heuristic |-> heuristic]

Fallback(changes) == Outcome(Ok(heuristic_ticket(changes)), TRUE, TRUE)

\* mutant: an answer with an unknown category is kept as a Feature
draft_from_text_default_feature(changes, text) ==
    LET normalized == normalize_json_blob(text)
        parsed == IF normalized.panic THEN None ELSE parse_gemini_draft(normalized.val)
        draft == parsed.val
        category == from_str(draft.branch_category)
        branch_summary == IF Trim(draft.branch_summary) = <<>>
                          THEN heuristic_summary(changes)
                          ELSE ToLowercase(Trim(draft.branch_summary))
    IN  IF normalized.panic THEN Outcome(Panic, TRUE, FALSE)
        ELSE IF ~parsed.some THEN Fallback(changes)
        ELSE IF Trim(draft.title) = <<>> THEN Fallback(changes)
        ELSE IF Trim(draft.description) = <<>> THEN Fallback(changes)
        ELSE Outcome(Ok([title |-> Trim(draft.title),
                         description |-> Trim(draft.description),
                         branch_category |-> IF category.some THEN category.val
                                             ELSE "Feature",
                         branch_summary |-> branch_summary]), TRUE, FALSE)

\* mutant: an answer without a branch summary is discarded
draft_from_text_summary_gate(changes, text) ==
    LET normalized == normalize_json_blob(text)
        parsed == IF normalized.panic THEN None ELSE parse_gemini_draft(normalized.val)
        draft == parsed.val
        category == from_str(draft.branch_category)
    IN  IF normalized.panic THEN Outcome(Panic, TRUE, FALSE)
        ELSE IF ~parsed.some THEN Fallback(changes)
        ELSE IF ~category.some THEN Fallback(changes)
        ELSE IF Trim(draft.branch_summary) = <<>> THEN Fallback(changes)
        ELSE IF Trim(draft.title) = <<>> THEN Fallback(changes)
        ELSE IF Trim(draft.description) = <<>> THEN Fallback(changes)
        ELSE Outcome(Ok([title |-> Trim(draft.title),
                         description |-> Trim(draft.description),
                         branch_category |-> category.val,
                         branch_summary |-> ToLowercase(Trim(draft.branch_summary))]),
                     TRUE, FALSE)

\* draft_ticket, lines 111-157: from the candidate text to the draft
draft_from_text(changes, text) ==
    LET normalized == normalize_json_blob(text)
        parsed == IF normalized.panic THEN None ELSE parse_gemini_draft(normalized.val)
        draft == parsed.val
        category == from_str(draft.branch_category)
        branch_summary == IF Trim(draft.branch_summary) = <<>>
                          THEN heuristic_summary(changes)
                          ELSE ToLowercase(Trim(draft.branch_summary))
    IN  IF normalized.panic THEN Outcome(Panic, TRUE, FALSE)
        ELSE IF ~parsed.some THEN Fallback(changes)
        ELSE IF ~category.some THEN Fallback(changes)
        ELSE IF Trim(draft.title) = <<>> THEN Fallback(changes)
        ELSE IF Trim(draft.description) = <<>> THEN Fallback(changes)
        ELSE Outcome(Ok([title |-> Trim(draft.title),
                         description |-> Trim(draft.description),
                         branch_category |-> category.val,
                         branch_summary |-> branch_summary]), TRUE, FALSE)

\* GeminiClient::draft_ticket
draft_ticket(api_key, changes, response) ==
    IF ~api_key.some THEN Outcome(Err("Configuration"), FALSE, FALSE)
    ELSE IF response.send = "Err" THEN Fallback(changes)
    ELSE IF ~response.success THEN Fallback(changes)
    ELSE IF ~response.payload.some THEN Fallback(changes)
    ELSE LET text == candidate_text(response.payload.val)
         IN  IF ~text.some THEN Outcome(Err("LanguageModel"), TRUE, FALSE)
             ELSE draft_from_text(changes, text.val)

(***************************************************************************)
(* Draft generator: inputs                                                 *)
(***************************************************************************)
Txt_fix_login_bug == <<"F","i","x"," ","l","o","g","i","n"," ","b","u","g">>

Txt_refactor_docs == <<"R","e","f","a","c","t","o","r"," ","d","o","c","s">>

DraftSummaries ==
    {<<>>, <<" ">>, <<"!","!">>, <<"-">>, <<"A","d","d"," ","x">>,
     Txt_fix_login_bug, Txt_refactor_docs}

DraftChanges ==
    {[files_changed |-> n, summary |-> t] : n \in {0, 3}, t \in DraftSummaries}

ApiKey == Some(<<"k">>)

\* JSON objects with the four members
ObjectTexts ==
    {<<"{", t, d, c, b, "}">> :
        t \in {"v", "p", "b", "e"}, d \in {"v", "p", "b", "e"},
        c \in {"f", "F", "q", "Q", "a", "u", "e"}, b \in {"v", "U", "b", "e"}}

\* a usable answer, one with an unknown category, one with an empty summary
SampleObjects ==
    {<<"{","v","v","f","v","}">>, <<"{","v","v","u","v","}">>, <<"{","p","p","q","e","}">>}

\* texts of braces and prose, and objects that lack a member
BraceTexts == TextsUpTo({"{", "}", "x"}, MaxBraceLen) \cup {<<"{","v","v","f","}">>}

\* what models put before and after the object
TextPrefixes ==
    {<<>>, Fence, Fence \o <<"j","s","o","n","\n">>, Fence \o <<"J","S","O","N"," ">>,
     Fence \o <<"a","b","c","é"," ">>, Fence \o <<"a","b"," ">>,
     <<"x"," ">>, <<"}"," ">>}

TextSuffixes == {<<>>, <<"\n">> \o Fence, <<" ","x">>}

Part(text) == [text |-> text]

Candidate(content) == [content |-> content]

\* envelopes without any non-empty text part
EmptyEnvelopes ==
    {<<>>,
     <<Candidate(None)>>,
     <<Candidate(Some(<<>>))>>,
     <<Candidate(Some(<<Part(None)>>))>>,
     <<Candidate(Some(<<Part(Some(<<" ","\n">>)), Part(Some(<<>>))>>)), Candidate(None)>>}

\* envelopes whose first non-empty text part is text
EnvelopesWith(text) ==
    {<<Candidate(Some(<<Part(Some(text))>>))>>,
     <<Candidate(None),
       Candidate(Some(<<Part(None), Part(Some(<<" ">>)), Part(Some(<<" ">> \o text))>>))>>,
     <<Candidate(Some(<<Part(Some(text))>>)),
       Candidate(Some(<<Part(Some(<<"{","v","v","f","v","}">>))>>))>>}

TransportError == [send |-> "Err"]

BadStatus == [send |-> "Ok", success |-> FALSE]

BadEnvelope == [send |-> "Ok", success |-> TRUE, payload |-> None]

Envelope(candidates) == [send |-> "Ok", success |-> TRUE, payload |-> Some(candidates)]

(***************************************************************************)
(* Draft generator: operations                                             *)
(***************************************************************************)
\* the client's API key and what the provider will do with the request
DraftSetting(api_key, response) ==
    /\ dt' = [op |-> "ready", api_key |-> api_key, response |-> response]
    /\ UNCHANGED <<br, entries, cop, fresh, overwrites, ck, wfVars, hs, jr, vc, instances>>

\* the client has no API key
DraftNoKey ==
    /\ dt.op = "none"
    /\ \E response \in {TransportError, BadStatus, BadEnvelope} :
          DraftSetting(None, response)

\* the request will fail or time out
DraftTransportError ==
    /\ dt.op = "none"
    /\ DraftSetting(ApiKey, TransportError)

\* the provider will answer with a non-success status
DraftBadStatus ==
    /\ dt.op = "none"
    /\ DraftSetting(ApiKey, BadStatus)

\* the body will not be a GenerateContentResponse
DraftBadEnvelope ==
    /\ dt.op = "none"
    /\ DraftSetting(ApiKey, BadEnvelope)

\* the body will hold no non-empty text part
DraftEmptyAnswer ==
    /\ dt.op = "none"
    /\ \E candidates \in EmptyEnvelopes : DraftSetting(ApiKey, Envelope(candidates))

\* the model writes the body of its answer
DraftModelWrites ==
    /\ dt.op = "none"
    /\ \E body \in ObjectTexts \cup BraceTexts \cup SampleObjects :
          dt' = [op |-> "body", text |-> body]
    /\ UNCHANGED <<br, entries, cop, fresh, overwrites, ck, wfVars, hs, jr, vc, instances>>

\* the model puts a fence or prose around the body
DraftModelWraps ==
    /\ dt.op = "body"
    /\ \E pre \in (IF dt.text \in BraceTexts \cup SampleObjects THEN TextPrefixes ELSE {<<>>}),
          post \in (IF dt.text \in BraceTexts \cup SampleObjects THEN TextSuffixes ELSE {<<>>}) :
          dt' = [op |-> "text", text |-> pre \o dt.text \o post, body |-> dt.text]
    /\ UNCHANGED <<br, entries, cop, fresh, overwrites, ck, wfVars, hs, jr, vc, instances>>

\* the body will hold the text the model wrote
DraftAnswer ==
    /\ dt.op = "text"
    /\ \E candidates \in EnvelopesWith(dt.text) :
          dt' = [op |-> "ready", api_key |-> ApiKey, response |-> Envelope(candidates),
                 body |-> dt.body]
    /\ UNCHANGED <<br, entries, cop, fresh, overwrites, ck, wfVars, hs, jr, vc, instances>>

\* one call of draft_ticket; written is the body the model wrote, if any
DraftTicket ==
    /\ dt.op = "ready"
    /\ \E changes \in DraftChanges :
          dt' = [op |-> "draft_ticket", api_key |-> dt.api_key, changes |-> changes,
                 response |-> dt.response,
                 written |-> IF "body" \in DOMAIN dt THEN Some(dt.body) ELSE None,
                 out |-> draft_ticket(dt.api_key, changes, dt.response)]
    /\ UNCHANGED <<br, entries, cop, fresh, overwrites, ck, wfVars, hs, jr, vc, instances>>

DraftInit == BrIdle /\ CacheIdle /\ KeyIdle /\ DraftIdle /\ HsIdle /\ JrIdle /\ VcIdle /\ InstIdle /\ WfIdle

NextDraft ==
    \/ DraftNoKey
    \/ DraftTransportError
    \/ DraftBadStatus
    \/ DraftBadEnvelope
    \/ DraftEmptyAnswer
    \/ DraftModelWrites
    \/ DraftModelWraps
    \/ DraftAnswer
    \/ DraftTicket

SpecDraft == DraftInit /\ [][NextDraft]_vars

(***************************************************************************)
(* Draft generator: properties                                             *)
(***************************************************************************)
\* the failure modes of the validation gate that a call's response shows
FailureModes(call) ==
    LET r == call.response
        answered == r.send = "Ok" /\ r.success /\ r.payload.some
        text == IF answered THEN candidate_text(r.payload.val) ELSE None
        extracted == IF text.some THEN normalize_json_blob(text.val) ELSE Panicked
        parsed == IF extracted.panic THEN None ELSE parse_gemini_draft(extracted.val)
    IN  {m \in 1..8 :
            \/ m = 1 /\ r.send = "Err"
            \/ m = 2 /\ r.send = "Ok" /\ ~r.success
            \/ m = 3 /\ r.send = "Ok" /\ r.success /\ ~text.some
            \/ m = 4 /\ text.some /\ ~extracted.panic /\ ~parsed.some
            \/ m = 5 /\ parsed.some /\ ~from_str(parsed.val.branch_category).some
            \/ m = 6 /\ parsed.some /\ Trim(parsed.val.title) = <<>>
            \/ m = 7 /\ parsed.some /\ Trim(parsed.val.description) = <<>>
            \/ m = 8 /\ parsed.some /\ Trim(parsed.val.branch_summary) = <<>>}

\* C1: with an API key, under each of the eight failure modes taken alone,
\* draft_ticket returns Ok with a non-empty title, description and
\* branch_summary, and never an error.
C1_FallbackTotal ==
    (dt.op = "draft_ticket" /\ dt.api_key.some /\ Cardinality(FailureModes(dt)) = 1) =>
        /\ dt.out.result.kind = "Ok"
        /\ dt.out.result.draft.title # <<>>
        /\ dt.out.result.draft.description # <<>>
        /\ dt.out.result.draft.branch_summary # <<>>

\* C2: draft_ticket returns an error only without an API key; then the error
\* is Configuration, no request was sent and no heuristic draft was built;
\* every other outcome is Ok.
C2_OnlyConfigurationError ==
    dt.op = "draft_ticket" =>
        IF dt.api_key.some
        THEN dt.out.result.kind = "Ok"
        ELSE /\ dt.out.result = Err("Configuration")
             /\ ~dt.out.sent
             /\ ~dt.out.heuristic

(***************************************************************************)
(* Cache key: inputs, operations, properties                               *)
(***************************************************************************)
\* texts of a letter and a digit
KeyTexts == TextsUpTo({"a", "1"}, MaxKeyText)

KeyBoards == {None} \cup {Some(t) : t \in KeyTexts}

KeyArgs(summary, files_changed, board) ==
    [summary |-> summary, files_changed |-> files_changed, board |-> board]

compute_key_of(args) == compute_key(args.summary, args.files_changed, args.board)

\* a caller computes a key
KeyCompute ==
    /\ ck.op = "none"
    /\ \E summary \in KeyTexts, files_changed \in 0..MaxFiles, board \in KeyBoards :
          ck' = [op |-> "computed",
                 args |-> KeyArgs(summary, files_changed, board),
                 key |-> compute_key(summary, files_changed, board)]
    /\ UNCHANGED <<br, entries, cop, fresh, overwrites, dt, wfVars, hs, jr, vc, instances>>

\* the caller computes the key again with one argument changed
KeyChanged(args) ==
    /\ ck' = [op |-> "changed", before |-> ck.args, key_before |-> ck.key,
              args |-> args, key |-> compute_key_of(args)]
    /\ UNCHANGED <<br, entries, cop, fresh, overwrites, dt, wfVars, hs, jr, vc, instances>>

KeyChangeSummary ==
    /\ ck.op = "computed"
    /\ \E summary \in KeyTexts \ {ck.args.summary} :
          KeyChanged([ck.args EXCEPT !.summary = summary])

KeyChangeFiles ==
    /\ ck.op = "computed"
    /\ \E files_changed \in (0..MaxFiles) \ {ck.args.files_changed} :
          KeyChanged([ck.args EXCEPT !.files_changed = files_changed])

KeyChangeBoard ==
    /\ ck.op = "computed"
    /\ \E board \in KeyBoards \ {ck.args.board} :
          KeyChanged([ck.args EXCEPT !.board = board])

KeyInit == BrIdle /\ CacheIdle /\ KeyIdle /\ DraftIdle /\ HsIdle /\ JrIdle /\ VcIdle /\ InstIdle /\ WfIdle

NextKey ==
    \/ KeyCompute
    \/ KeyChangeSummary
    \/ KeyChangeFiles
    \/ KeyChangeBoard

SpecKey == KeyInit /\ [][NextKey]_vars

\* C6: changing one of the three arguments of compute_key, the other two
\* kept, changes the key (the hash taken as injective), board absent versus
\* present included.
C6_KeyChanges ==
    ck.op = "changed" => ck.key # ck.key_before

(***************************************************************************)
(* Heuristic draft: inputs, operations                                     *)
(***************************************************************************)
\* words of a change summary that hold a Fix keyword, in any case and inside
\* a longer word
FixWords ==
    {<<"f","i","x">>, <<"B","u","g">>, <<"E","R","R","O","R">>,
     <<"P","r","e","F","I","X","e","d">>}

\* words that hold a Quality keyword
QualityWords ==
    {<<"r","e","f","a","c","t","o","r">>, <<"C","l","e","a","n","u","p">>,
     <<"D","O","C","S">>, <<"c","h","o","r","e","s">>}

\* words without a keyword: a plain word, punctuation, a dash, white space
PlainWords == {<<"a","d","d">>, <<"!","!">>, <<"-">>, <<" ">>, <<"\t">>, <<"V","2",".","0","_","é">>}

HsWords == FixWords \cup QualityWords \cup PlainWords

Txt_fix_null_pointer ==
    <<"F","i","x"," ","n","u","l","l"," ","p","o","i","n","t","e","r"," ","i","n"," ",
      "p","a","r","s","e","r">>

Txt_refactor_module ==
    <<"R","e","f","a","c","t","o","r"," ","m","o","d","u","l","e"," ","l","a","y","o","u","t">>

Txt_add_dark_mode ==
    <<"A","d","d"," ","d","a","r","k"," ","m","o","d","e"," ","t","o","g","g","l","e">>

\* ten words, the first eight of them with characters to strip
Txt_add_retry ==
    <<"A","d","d"," ","R","E","T","R","Y"," "," ","t","o","\t","t","h","e"," ","A","P","I","!",
      " ","-",">"," ","v","2",".","0","\n","(","c","l","i","e","n","t",")"," ","a","n","d"," ",
      "t","e","s","t","s">>

\* nine words, the first eight of them without a character that is kept
Txt_marks_then_word ==
    <<"!"," ","?"," ","!"," ","?"," ","!"," ","?"," ","!"," ","?"," ","w","o","r","d">>

\* example summaries, each with the category of the first keyword group it
\* contains and the slug of its first 8 words
HsExamples ==
    {[summary |-> Txt_fix_null_pointer, category |-> "Fix",
      slug |-> <<"f","i","x","-","n","u","l","l","-","p","o","i","n","t","e","r","-","i","n","-",
                 "p","a","r","s","e","r">>],
     [summary |-> Txt_refactor_module, category |-> "Quality",
      slug |-> <<"r","e","f","a","c","t","o","r","-","m","o","d","u","l","e","-",
                 "l","a","y","o","u","t">>],
     [summary |-> Txt_add_dark_mode, category |-> "Feature",
      slug |-> <<"a","d","d","-","d","a","r","k","-","m","o","d","e","-","t","o","g","g","l","e">>],
     [summary |-> Txt_fix_login_bug, category |-> "Fix",
      slug |-> <<"f","i","x","-","l","o","g","i","n","-","b","u","g">>],
     [summary |-> Txt_add_retry, category |-> "Feature",
      slug |-> <<"a","d","d","-","r","e","t","r","y","-","t","o","-","t","h","e","-","a","p","i",
                 "-","-","-","v","2","0","-","c","l","i","e","n","t">>],
     [summary |-> Txt_marks_then_word, category |-> "Feature",
      slug |-> Txt_pending_update]}

HsFiles == {0, 1, 3, 12}

\* the caller's summary grows by one word
HsTypeWord ==
    /\ hs.op \in {"none", "typing"}
    /\ hs.words < MaxWords
    /\ \E w \in HsWords :
          hs' = [op |-> "typing",
                 summary |-> IF hs.words = 0 THEN w ELSE hs.summary \o <<" ">> \o w,
                 words |-> hs.words + 1,
                 typed |-> IF hs.words = 0 THEN {w} ELSE hs.typed \cup {w},
                 sequence |-> IF hs.words = 0 THEN <<w>> ELSE Append(hs.sequence, w)]
    /\ UNCHANGED <<br, entries, cop, fresh, overwrites, ck, dt, wfVars, jr, vc, instances>>

\* the caller takes an example of the specification
HsTakeExample ==
    /\ hs.op = "none"
    /\ \E x \in HsExamples :
          hs' = [op |-> "example", summary |-> x.summary, words |-> MaxWords,
                 expected |-> x.category, slug |-> x.slug]
    /\ UNCHANGED <<br, entries, cop, fresh, overwrites, ck, dt, wfVars, jr, vc, instances>>

\* one call of heuristic_ticket
HeuristicTicket ==
    /\ hs.op \in {"none", "typing", "example"}
    /\ \E files_changed \in HsFiles :
          LET changes == [files_changed |-> files_changed, summary |-> hs.summary]
          IN  hs' = [hs EXCEPT !.op = "heuristic_ticket"] @@
                    [from |-> hs.op,
                     changes |-> changes,
                     out |-> heuristic_ticket(changes)]
    /\ UNCHANGED <<br, entries, cop, fresh, overwrites, ck, dt, wfVars, jr, vc, instances>>

HsInit == BrIdle /\ CacheIdle /\ KeyIdle /\ DraftIdle /\ HsIdle /\ JrIdle /\ VcIdle /\ InstIdle /\ WfIdle

NextHeuristic ==
    \/ HsTypeWord
    \/ HsTakeExample
    \/ HeuristicTicket

SpecHeuristic == HsInit /\ [][NextHeuristic]_vars

(***************************************************************************)
(* Heuristic draft: properties                                             *)
(***************************************************************************)
\* C12: the category is Fix when the summary holds a Fix keyword (also when
\* it holds a Quality keyword too), else Quality when it holds a Quality
\* keyword, else Feature; keywords match in any case and inside longer words.
C12_CategoryPriority ==
    /\ (hs.op = "heuristic_ticket" /\ hs.from = "typing") =>
          hs.out.branch_category =
              IF hs.typed \cap FixWords # {} THEN "Fix"
              ELSE IF hs.typed \cap QualityWords # {} THEN "Quality"
              ELSE "Feature"
    /\ (hs.op = "heuristic_ticket" /\ hs.from = "example") =>
          hs.out.branch_category = hs.expected
    /\ (hs.op = "heuristic_ticket" /\ hs.from = "none") =>
          hs.out.branch_category = "Feature"

C12_Witness ==
    /\ hs.op = "heuristic_ticket"
    /\ hs.from = "typing"
    /\ hs.summary = <<"D","O","C","S"," ","P","r","e","F","I","X","e","d">>
    /\ hs.out.branch_category = "Fix"

\* C13: for every ChangeSummary, also with an empty, a white-space-only or a
\* punctuation-only summary and no file changed, heuristic_ticket returns a
\* draft whose title, description and branch_summary are non-empty after
\* trimming.
C13_HeuristicUsable ==
    hs.op = "heuristic_ticket" =>
        /\ Trim(hs.out.title) # <<>>
        /\ Trim(hs.out.description) # <<>>
        /\ Trim(hs.out.branch_summary) # <<>>
        /\ hs.out.branch_category \in BranchCategory

C13_Witness ==
    /\ hs.op = "heuristic_ticket"
    /\ hs.changes = [files_changed |-> 0, summary |-> <<"!","!">>]
    /\ hs.out.branch_summary = Txt_pending_update
    /\ Trim(hs.out.description) # <<>>

(***************************************************************************)
(* cache.rs : the cache file                                               *)
(***************************************************************************)
\* mutant: a file that is no cache document is read as an empty cache
load_corrupt_as_empty(disk, env) ==
    IF env = "no_config_dir" THEN Err("Configuration")
    ELSE IF env = "read_error" THEN Err("Io")
    ELSE IF disk.state \in {"missing", "corrupt"} THEN [kind |-> "Ok", entries |-> <<>>]
    ELSE [kind |-> "Ok", entries |-> disk.entries]

\* TicketDraftCache::load : disk is the file, env what the file system does
load(disk, env) ==
    IF env = "no_config_dir" THEN Err("Configuration")
    ELSE IF env = "read_error" THEN Err("Io")
    ELSE IF disk.state = "missing" THEN [kind |-> "Ok", entries |-> <<>>]
    ELSE IF disk.state = "corrupt" THEN Err("Configuration")
    ELSE [kind |-> "Ok", entries |-> disk.entries]

\* mutant: the entries of the file under other keys are kept
save_merge(disk, es, env) ==
    IF env = "ok"
    THEN [state |-> "ok",
          entries |-> (IF disk.state = "ok"
                       THEN SelectSeq(disk.entries,
                                      LAMBDA e : \A i \in 1..Len(es) : es[i].key # e.key)
                       ELSE <<>>) \o es]
    ELSE disk

\* mutant: the entries are appended to the entries of the file
save_append(disk, es, env) ==
    IF env = "ok"
    THEN [state |-> "ok",
          entries |-> (IF disk.state = "ok" THEN disk.entries ELSE <<>>) \o es]
    ELSE disk

\* mutant: the file is written without its entries
save_no_entries(disk, es, env) ==
    IF env = "ok" THEN [state |-> "ok", entries |-> <<>>] ELSE disk

\* TicketDraftCache::save : the file after the call
save(disk, es, env) ==
    IF env = "ok" THEN [state |-> "ok", entries |-> es] ELSE disk

(***************************************************************************)
(* infra/jira.rs, infra/git.rs : the wired collaborators                   *)
(***************************************************************************)
\* the key the tracker gives its n-th ticket
TicketKeyNo(n) == <<"T","C","K","-">> \o ToDecimal(n + 6)

\* an error with its message
ErrMsg(error, message) == [kind |-> "Err", error |-> error, message |-> message]

\* what a call of JiraClient::create_ticket did: its result and its steps
\* after the validation of the input (api_details, the HTTP request)
JiraOutcome(result, steps) == [result |-> result, steps |-> steps]

\* mutant: the credentials are looked up before the input is validated
create_ticket_run_credentials_first(board, draft, jira, created) ==
    IF jira = "no_credentials"
    THEN JiraOutcome(ErrMsg("Configuration", "Jira base URL not configured"), <<"api_details">>)
    ELSE IF Trim(board) = <<>>
    THEN JiraOutcome(ErrMsg("IssueTracker", "board key must not be empty"), <<"api_details">>)
    ELSE IF Trim(draft.title) = <<>>
    THEN JiraOutcome(ErrMsg("LanguageModel", "language model returned an empty title"),
                     <<"api_details">>)
    ELSE IF Trim(draft.branch_summary) = <<>>
    THEN JiraOutcome(ErrMsg("LanguageModel", "language model returned an empty branch summary"),
                     <<"api_details">>)
    ELSE IF jira = "unreachable"
    THEN JiraOutcome(ErrMsg("IssueTracker", "failed to call Jira"), <<"api_details", "send">>)
    ELSE IF jira = "rejected"
    THEN JiraOutcome(ErrMsg("IssueTracker", "Jira responded with status"),
                     <<"api_details", "send">>)
    ELSE JiraOutcome([kind |-> "Ok", ticket |-> [key |-> TicketKeyNo(created + 1)]],
                     <<"api_details", "send">>)

\* JiraClient::create_ticket : jira is what the configuration and the
\* tracker do with the call
create_ticket_run(board, draft, jira, created) ==
    IF Trim(board) = <<>>
    THEN JiraOutcome(ErrMsg("IssueTracker", "board key must not be empty"), <<>>)
    ELSE IF Trim(draft.title) = <<>>
    THEN JiraOutcome(ErrMsg("LanguageModel", "language model returned an empty title"), <<>>)
    ELSE IF Trim(draft.branch_summary) = <<>>
    THEN JiraOutcome(ErrMsg("LanguageModel", "language model returned an empty branch summary"),
                     <<>>)
    ELSE IF jira = "no_credentials"
    THEN JiraOutcome(ErrMsg("Configuration", "Jira base URL not configured"), <<"api_details">>)
    ELSE IF jira = "unreachable"
    THEN JiraOutcome(ErrMsg("IssueTracker", "failed to call Jira"), <<"api_details", "send">>)
    ELSE IF jira = "rejected"
    THEN JiraOutcome(ErrMsg("IssueTracker", "Jira responded with status"),
                     <<"api_details", "send">>)
    ELSE JiraOutcome([kind |-> "Ok", ticket |-> [key |-> TicketKeyNo(created + 1)]],
                     <<"api_details", "send">>)

\* JiraClient::create_ticket : the returned AppResult<Ticket>
create_ticket(board, draft, jira, created) ==
    create_ticket_run(board, draft, jira, created).result

\* GitCli::checkout_branch : git is what the repository does
checkout_branch(branch, git) ==
    IF branch = <<>> THEN ErrMsg("VersionControl", "branch name cannot be empty")
    ELSE IF git = "fails" THEN ErrMsg("VersionControl", "git checkout failed")
    ELSE [kind |-> "Ok"]

(***************************************************************************)
(* JiraClient: inputs, operations, properties                              *)
(***************************************************************************)
JrBoards == {<<>>, <<" ">>, <<"T","C","K">>, <<" ","T","C","K"," ">>}

JrDrafts ==
    {[title |-> t, description |-> d, branch_category |-> "Feature", branch_summary |-> b] :
        t \in {<<>>, <<" ","\t">>, <<"A","d","d"," ","x">>},
        d \in {<<>>, <<"d">>},
        b \in {<<>>, <<"x">>}}

\* the configuration and the tracker: no credentials, no connection, a
\* non-success status, a created issue
JiraBehaviours == {"no_credentials", "unreachable", "rejected", "created"}

\* one call of JiraClient::create_ticket
JiraCreateTicket ==
    /\ jr.op = "none"
    /\ \E board \in JrBoards, draft \in JrDrafts, jira \in JiraBehaviours :
          LET out == create_ticket_run(board, draft, jira, tickets)
          IN  /\ jr' = [op |-> "create_ticket", board |-> board, draft |-> draft,
                        jira |-> jira, out |-> out]
              /\ tickets' = IF out.result.kind = "Ok" THEN tickets + 1 ELSE tickets
    /\ UNCHANGED <<br, entries, cop, fresh, overwrites, ck, dt, wf, runs, file, head, hs, vc, instances>>

JrInit == BrIdle /\ CacheIdle /\ KeyIdle /\ DraftIdle /\ HsIdle /\ JrIdle /\ VcIdle /\ InstIdle /\ WfIdle

NextJira == JiraCreateTicket

SpecJira == JrInit /\ [][NextJira]_vars

\* C20: JiraClient::create_ticket rejects a board key or a draft title that
\* is empty after trimming with its own validation error, before it looks up
\* the credentials and before it sends a request; no ticket is created.
C20_JiraValidatesFirst ==
    (jr.op = "create_ticket" /\ (Trim(jr.board) = <<>> \/ Trim(jr.draft.title) = <<>>)) =>
        /\ jr.out.result.kind = "Err"
        /\ jr.out.result =
              IF Trim(jr.board) = <<>>
              THEN ErrMsg("IssueTracker", "board key must not be empty")
              ELSE ErrMsg("LanguageModel", "language model returned an empty title")
        /\ jr.out.steps = <<>>
        /\ tickets = 0

C20_Witness ==
    /\ jr.op = "create_ticket"
    /\ jr.board = <<"T","C","K">>
    /\ jr.draft.title = <<" ","\t">>
    /\ jr.jira = "no_credentials"
    /\ jr.out.result = ErrMsg("LanguageModel", "language model returned an empty title")
    /\ jr.out.steps = <<>>

(***************************************************************************)
(* services/*.rs, context.rs : the collaborators of a run                  *)
(***************************************************************************)
\* the provider of the wired GeminiClient cannot be reached or refuses
ModelCallFailed(lm) ==
    /\ lm.impl = "GeminiClient"
    /\ lm.api_key.some
    /\ (lm.response.send = "Err" \/ ~lm.response.success)

\* mutant: a failed model call is an error of draft_ticket
language_model_draft_ticket_no_fallback(lm, changes) ==
    IF lm.impl = "GeminiClient"
    THEN IF ModelCallFailed(lm) THEN Err("LanguageModel")
         ELSE draft_ticket(lm.api_key, changes, lm.response).result
    ELSE lm.returns

\* LanguageModelService::draft_ticket of ctx.language_model: the wired
\* GeminiClient, or another implementation that returns lm.returns
language_model_draft_ticket(lm, changes) ==
    IF lm.impl = "GeminiClient"
    THEN draft_ticket(lm.api_key, changes, lm.response).result
    ELSE lm.returns

\* IssueTrackerService::create_ticket of ctx.issue_tracker: the wired
\* JiraClient, or another implementation that creates a ticket or fails
issue_tracker_create_ticket(tracker, board, draft, created) ==
    IF tracker.impl = "JiraClient"
    THEN create_ticket(board, draft, tracker.jira, created)
    ELSE IF tracker.returns.kind = "Ok"
         THEN [kind |-> "Ok", ticket |-> [key |-> TicketKeyNo(created + 1)]]
         ELSE tracker.returns

(***************************************************************************)
(* workflow/ticket.rs                                                      *)
(***************************************************************************)
NoResult == [kind |-> "none"]

\* a run that has just been called; summarized, loaded, generated, created
\* and checked_out record what the collaborators returned to it, earlier
\* the drafts that runs generated and saved, with their inputs,
\* tickets_created the keys of the tickets that create_ticket returned
NewRun(board_override, default_board) ==
    [pc |-> "begin",
     board_override |-> board_override,
     default_board |-> default_board,
     board |-> <<>>,
     changes |-> None,
     cache_key |-> None,
     cache |-> None,
     hit |-> FALSE,
     draft |-> None,
     ticket |-> None,
     branch |-> None,
     calls |-> <<>>,
     summarized |-> None,
     loaded |-> None,
     lm |-> None,
     generated |-> None,
     saved |-> None,
     created |-> None,
     checked_out |-> None,
     earlier |-> IF wf.pc = "idle" THEN <<>> ELSE wf.earlier,
     tickets_created |-> IF wf.pc = "idle" THEN <<>> ELSE wf.tickets_created,
     result |-> NoResult]

\* the run returns result
Return(run, result) == [run EXCEPT !.pc = "done", !.result = result]

\* mutant: without any board the run goes on with an empty board
resolve_board_or_empty(board_override, default_board) ==
    IF board_override.some THEN board_override
    ELSE IF default_board.some THEN default_board ELSE Some(<<>>)

\* create_ticket_from_changes, lines 16-18: override, else configured default
resolve_board(board_override, default_board) ==
    IF board_override.some THEN board_override ELSE default_board

\* mutant: a cache that cannot be loaded is replaced by an empty cache
loaded_cache_or_empty(loaded) ==
    IF loaded.kind = "Ok" THEN Some(loaded.entries) ELSE Some(<<>>)

\* lines 24-32: the cache of the run, none when load failed
loaded_cache(loaded) ==
    IF loaded.kind = "Ok" THEN Some(loaded.entries) ELSE None

\* mutant: the cache is never consulted
lookup_never(cache, key) == None

\* line 34: cache.as_mut().and_then(|c| c.get(&cache_key))
lookup(cache, key) == IF cache.some THEN get(cache.val, key) ELSE None

\* mutant: the description is not checked
check_description_skipped(run, draft) ==
    [run EXCEPT !.pc = "create",
                !.draft = Some(draft),
                !.calls = Append(@, "create_ticket")]

\* lines 48-57: the description check, then create_ticket is called
check_description(run, draft) ==
    IF Trim(draft.description) = <<>>
    THEN Return([run EXCEPT !.draft = Some(draft)], ErrMsg("LanguageModel",
                    "language model returned an empty description"))
    ELSE [run EXCEPT !.pc = "create",
                     !.draft = Some(draft),
                     !.calls = Append(@, "create_ticket")]

\* mutant: the branch is named after the title of the draft
branch_name_from_title(draft, ticket) ==
    from_parts(draft.branch_category, ticket.key, Trim(draft.title))

\* lines 59-66: the branch name of the ticket
branch_name_of(draft, ticket) ==
    from_parts(draft.branch_category, ticket.key, Trim(draft.branch_summary))

\* mutant: the branch summary is not checked
check_branch_summary_skipped(run, ticket) ==
    [run EXCEPT !.pc = "checkout",
                !.ticket = Some(ticket),
                !.branch = Some(branch_name_of(run.draft.val, ticket)),
                !.calls = Append(@, "checkout_branch")]

\* lines 59-68: the branch summary check, then checkout_branch is called
check_branch_summary(run, ticket) ==
    IF Trim(run.draft.val.branch_summary) = <<>>
    THEN Return([run EXCEPT !.ticket = Some(ticket)],
                ErrMsg("LanguageModel", "language model returned an empty branch summary"))
    ELSE [run EXCEPT !.pc = "checkout",
                     !.ticket = Some(ticket),
                     !.branch = Some(branch_name_of(run.draft.val, ticket)),
                     !.calls = Append(@, "checkout_branch")]

\* mutant: an error of a collaborator is wrapped into a new error
propagate_wrapped(run, outcome) ==
    Return(run, ErrMsg(outcome.error, "ticket workflow failed"))

\* the ? operator of lines 20, 37, 57, 68: the error is returned as it is
propagate(run, outcome) == Return(run, outcome)

\* lines 16-20: the board is resolved and summarize_changes is called
WfBegin(board_override, default_board) ==
    /\ wf.pc \in {"idle", "done"}
    /\ runs < MaxRuns
    /\ runs' = runs + 1
    /\ LET board == resolve_board(board_override, default_board)
           run == NewRun(board_override, default_board)
       IN  wf' = IF ~board.some
                 THEN Return(run, Err("Configuration"))
                 ELSE [run EXCEPT !.pc = "summarize",
                                  !.board = board.val,
                                  !.calls = <<"summarize_changes">>]
    /\ UNCHANGED <<file, tickets, head, br, entries, cop, fresh, overwrites, ck, dt, hs, jr, vc, instances>>

\* lines 20-46: summarize_changes returns; the key is computed, the cache is
\* loaded and looked up; on a miss draft_ticket is called
WfSummarized(outcome, env) ==
    /\ wf.pc = "summarize"
    /\ IF outcome.kind = "Err"
       THEN wf' = propagate([wf EXCEPT !.summarized = Some(outcome)], outcome)
       ELSE \E key \in {compute_key(outcome.changes.summary, outcome.changes.files_changed,
                                     Some(wf.board))},
               loaded \in {load(file, env)} :
               \E run \in {[wf EXCEPT !.summarized = Some(outcome),
                                       !.changes = Some(outcome.changes),
                                       !.cache_key = Some(key),
                                       !.calls = Append(@, "cache_load"),
                                       !.loaded = Some(loaded),
                                       !.cache = loaded_cache(loaded)]} :
                  \E cached \in {lookup(run.cache, key)} :
                     wf' = IF cached.some
                           THEN check_description([run EXCEPT !.hit = TRUE], cached.val)
                           ELSE [run EXCEPT !.pc = "draft",
                                            !.calls = Append(@, "draft_ticket")]
    /\ UNCHANGED <<runs, file, tickets, head, br, entries, cop, fresh, overwrites, ck, dt, hs, jr, vc, instances>>

\* mutant: the description is checked before the draft is inserted and saved
WfDrafted_check_first(lm, env) ==
    /\ wf.pc = "draft"
    /\ \E outcome \in {language_model_draft_ticket(lm, wf.changes.val)} :
          \E run \in {[wf EXCEPT !.lm = Some(lm), !.generated = Some(outcome)]} :
             IF outcome.kind # "Ok"
             THEN wf' = propagate(run, outcome) /\ file' = file
             ELSE IF wf.cache.some /\ Trim(outcome.draft.description) # <<>>
                  THEN \E es \in {insert(wf.cache.val, wf.cache_key.val, outcome.draft)} :
                          /\ file' = save(file, es, env)
                          /\ wf' = check_description(
                                       [run EXCEPT !.cache = Some(es),
                                                   !.saved = Some(env),
                                                   !.calls = Append(@, "cache_save"),
                                                   !.earlier =
                                                       IF env = "ok"
                                                       THEN Append(@, [run |-> runs,
                                                                       changes |-> wf.changes.val,
                                                                       board |-> wf.board,
                                                                       failed |-> ModelCallFailed(lm),
                                                                       draft |-> outcome.draft])
                                                       ELSE @],
                                       outcome.draft)
                  ELSE /\ file' = file
                       /\ wf' = check_description(run, outcome.draft)
    /\ UNCHANGED <<runs, tickets, head, br, entries, cop, fresh, overwrites, ck, dt, hs, jr, vc, instances>>

\* lines 37-57: draft_ticket of the language model lm returns; the draft is
\* inserted and the cache saved if there is a cache; the description is
\* checked
WfDrafted(lm, env) ==
    /\ wf.pc = "draft"
    /\ \E outcome \in {language_model_draft_ticket(lm, wf.changes.val)} :
          \E run \in {[wf EXCEPT !.lm = Some(lm), !.generated = Some(outcome)]} :
             IF outcome.kind # "Ok"
             THEN wf' = propagate(run, outcome) /\ file' = file
             ELSE IF wf.cache.some
                  THEN \E es \in {insert(wf.cache.val, wf.cache_key.val, outcome.draft)} :
                          /\ file' = save(file, es, env)
                          /\ wf' = check_description(
                                       [run EXCEPT !.cache = Some(es),
                                                   !.saved = Some(env),
                                                   !.calls = Append(@, "cache_save"),
                                                   !.earlier =
                                                       IF env = "ok"
                                                       THEN Append(@, [run |-> runs,
                                                                       changes |-> wf.changes.val,
                                                                       board |-> wf.board,
                                                                       failed |-> ModelCallFailed(lm),
                                                                       draft |-> outcome.draft])
                                                       ELSE @],
                                       outcome.draft)
                  ELSE /\ file' = file
                       /\ wf' = check_description(run, outcome.draft)
    /\ UNCHANGED <<runs, tickets, head, br, entries, cop, fresh, overwrites, ck, dt, hs, jr, vc, instances>>

\* lines 54-68: create_ticket of the issue tracker returns; the branch
\* summary is checked, the branch name built and checkout_branch called
WfCreated(tracker) ==
    /\ wf.pc = "create"
    /\ \E outcome \in {issue_tracker_create_ticket(tracker, wf.board, wf.draft.val, tickets)} :
          \E run \in {[wf EXCEPT !.created = Some(outcome)]} :
             IF outcome.kind # "Ok"
             THEN wf' = propagate(run, outcome) /\ tickets' = tickets
             ELSE /\ tickets' = tickets + 1
                  /\ wf' = check_branch_summary(
                               [run EXCEPT !.tickets_created = Append(@, outcome.ticket.key)],
                               outcome.ticket)
    /\ UNCHANGED <<runs, file, head, br, entries, cop, fresh, overwrites, ck, dt, hs, jr, vc, instances>>

\* mutant: a failed checkout is tried again
WfCheckedOut_retry(git) ==
    /\ wf.pc = "checkout"
    /\ LET outcome == checkout_branch(wf.branch.val, git)
           run == [wf EXCEPT !.checked_out = Some(outcome)]
       IN  IF outcome.kind # "Ok"
           THEN /\ wf' = [run EXCEPT !.calls = Append(@, "checkout_branch")]
                /\ head' = head
           ELSE /\ head' = wf.branch
                /\ wf' = Return(run, [kind |-> "Ok",
                                      ticket |-> wf.ticket.val,
                                      branch |-> wf.branch.val])
    /\ UNCHANGED <<runs, file, tickets, br, entries, cop, fresh, overwrites, ck, dt, hs, jr, vc, instances>>

\* mutant: the ticket is withdrawn when the checkout fails
WfCheckedOut_compensate(git) ==
    /\ wf.pc = "checkout"
    /\ LET outcome == checkout_branch(wf.branch.val, git)
           run == [wf EXCEPT !.checked_out = Some(outcome)]
       IN  IF outcome.kind # "Ok"
           THEN wf' = propagate(run, outcome) /\ head' = head /\ tickets' = tickets - 1
           ELSE /\ head' = wf.branch
                /\ tickets' = tickets
                /\ wf' = Return(run, [kind |-> "Ok",
                                      ticket |-> wf.ticket.val,
                                      branch |-> wf.branch.val])
    /\ UNCHANGED <<runs, file, br, entries, cop, fresh, overwrites, ck, dt, hs, jr, vc, instances>>

\* lines 68-73: checkout_branch returns; the run returns ticket and branch
WfCheckedOut(git) ==
    /\ wf.pc = "checkout"
    /\ LET outcome == checkout_branch(wf.branch.val, git)
           run == [wf EXCEPT !.checked_out = Some(outcome)]
       IN  IF outcome.kind # "Ok"
           THEN wf' = propagate(run, outcome) /\ head' = head
           ELSE /\ head' = wf.branch
                /\ wf' = Return(run, [kind |-> "Ok",
                                      ticket |-> wf.ticket.val,
                                      branch |-> wf.branch.val])
    /\ UNCHANGED <<runs, file, tickets, br, entries, cop, fresh, overwrites, ck, dt, hs, jr, vc, instances>>

(***************************************************************************)
(* Workflow: inputs                                                        *)
(***************************************************************************)
BoardTCK == <<"T","C","K">>

BoardDEF == <<"D","E","F">>

WfChanges ==
    {[files_changed |-> 3, summary |-> Txt_fix_login_bug],
     [files_changed |-> 0, summary |-> <<>>]}

SummarizeOutcomes ==
    {ErrMsg("VersionControl", "git status failed")}
        \cup {[kind |-> "Ok", changes |-> c] : c \in WfChanges}

\* what the provider does in a run: no answer, a refusal, an empty answer, a
\* usable answer, an answer of stray braces
WfResponses ==
    {TransportError,
     BadStatus,
     Envelope(<<>>),
     Envelope(<<Candidate(Some(<<Part(Some(<<"{","v","v","f","v","}">>))>>))>>),
     Envelope(<<Candidate(Some(<<Part(Some(<<"}","x","{">>))>>))>>)}

\* drafts another language model may return: no description, no branch
\* summary
StubDrafts ==
    {[title |-> <<"A","d","d"," ","x">>, description |-> <<" ","\n">>,
      branch_category |-> "Feature", branch_summary |-> <<"x">>],
     [title |-> <<"A","d","d"," ","x">>, description |-> <<"d">>,
      branch_category |-> "Quality", branch_summary |-> <<" ">>]}

\* ctx.language_model: the GeminiClient without a key, the GeminiClient with
\* a key and a provider, or another implementation
LanguageModels ==
    {[impl |-> "GeminiClient", api_key |-> None, response |-> TransportError]}
        \cup {[impl |-> "GeminiClient", api_key |-> ApiKey, response |-> r] : r \in WfResponses}
        \cup {[impl |-> "stub", returns |-> Ok(d)] : d \in StubDrafts}
        \cup {[impl |-> "stub", returns |-> ErrMsg("LanguageModel", "quota exceeded")]}

\* ctx.issue_tracker: the JiraClient, or another implementation
IssueTrackers ==
    {[impl |-> "JiraClient", jira |-> j] : j \in {"created", "no_credentials", "unreachable"}}
        \cup {[impl |-> "stub", returns |-> [kind |-> "Ok"]],
              [impl |-> "stub", returns |-> ErrMsg("IssueTracker", "board is archived")]}

WfCallBegin ==
    \E board_override \in {None, Some(BoardTCK)}, default_board \in {None, Some(BoardDEF)} :
        WfBegin(board_override, default_board)

WfSummarizeReturns ==
    /\ wf.pc = "summarize"
    /\ \E outcome \in SummarizeOutcomes, env \in {"ok", "read_error", "no_config_dir"} :
          WfSummarized(outcome, env)

WfDraftReturns ==
    /\ wf.pc = "draft"
    /\ \E lm \in LanguageModels, env \in {"ok", "fails"} : WfDrafted(lm, env)

WfCreateReturns ==
    /\ wf.pc = "create"
    /\ \E tracker \in IssueTrackers : WfCreated(tracker)

WfCheckoutReturns ==
    /\ wf.pc = "checkout"
    /\ \E git \in {"ok", "fails"} : WfCheckedOut(git)

\* the cache file a user finds: none, or one that is not a cache document
WfInit ==
    /\ BrIdle /\ CacheIdle /\ KeyIdle /\ DraftIdle /\ HsIdle /\ JrIdle /\ VcIdle /\ InstIdle
    /\ wf = [pc |-> "idle"]
    /\ runs = 0
    /\ file \in {[state |-> "missing"], [state |-> "corrupt"]}
    /\ tickets = 0
    /\ head = None

NextWorkflow ==
    \/ WfCallBegin
    \/ WfSummarizeReturns
    \/ WfDraftReturns
    \/ WfCreateReturns
    \/ WfCheckoutReturns

SpecWorkflow == WfInit /\ [][NextWorkflow]_vars

(***************************************************************************)
(* Workflow: properties                                                    *)
(***************************************************************************)
\* C10: without a board override and without a configured default board the
\* run fails with a Configuration error and calls none of summarize_changes,
\* cache load, draft_ticket, create_ticket, checkout_branch.
C10_NoBoardAborts ==
    (wf.pc # "idle" /\ ~wf.board_override.some /\ ~wf.default_board.some) =>
        /\ wf.pc = "done"
        /\ wf.result = Err("Configuration")
        /\ wf.calls = <<>>

C10_Witness ==
    /\ wf.pc = "done"
    /\ runs = 2
    /\ file.state = "ok"
    /\ ~wf.board_override.some
    /\ ~wf.default_board.some
    /\ wf.result = Err("Configuration")

\* C11: when the language model is unavailable, the cache has no entry, the
\* tracker returns key K and checkout succeeds, the run returns ticket K and
\* the branch from_parts(heuristic category, K, heuristic summary), which is
\* the branch passed to checkout_branch; for 3 files, "Fix login bug", board
\* TCK and K = TCK-7 the branch is fix/TCK-7/fix-login-bug.
C11_HeuristicEndToEnd ==
    (/\ wf.pc = "done"
     /\ wf.lm.some
     /\ wf.lm.val.impl = "GeminiClient"
     /\ wf.lm.val.api_key.some
     /\ wf.lm.val.response \in {TransportError, BadStatus, BadEnvelope}
     /\ wf.created.some
     /\ wf.created.val.kind = "Ok"
     /\ wf.checked_out.some
     /\ wf.checked_out.val.kind = "Ok") =>
        LET K == wf.created.val.ticket.key
            changes == wf.changes.val
            expected == from_parts(heuristic_category(changes), K,
                                   heuristic_summary(changes))
        IN  /\ wf.result.kind = "Ok"
            /\ wf.result.ticket.key = K
            /\ wf.result.branch = expected
            /\ wf.branch = Some(expected)
            /\ head = Some(expected)
            /\ (/\ changes = [files_changed |-> 3, summary |-> Txt_fix_login_bug]
                /\ wf.board = BoardTCK
                /\ K = <<"T","C","K","-","7">>) =>
                   wf.result.branch =
                       <<"f","i","x","/","T","C","K","-","7","/",
                         "f","i","x","-","l","o","g","i","n","-","b","u","g">>

C11_Witness ==
    /\ wf.pc = "done"
    /\ wf.lm = Some([impl |-> "GeminiClient", api_key |-> ApiKey, response |-> TransportError])
    /\ ~wf.hit
    /\ wf.board = BoardTCK
    /\ wf.changes = Some([files_changed |-> 3, summary |-> Txt_fix_login_bug])
    /\ wf.result.kind = "Ok"
    /\ wf.result.ticket.key = <<"T","C","K","-","7">>
    /\ head = Some(<<"f","i","x","/","T","C","K","-","7","/",
                     "f","i","x","-","l","o","g","i","n","-","b","u","g">>)

\* the calls of a run to its collaborators, the cache left out
ExternalCalls(calls) ==
    SelectSeq(calls, LAMBDA c : c \notin {"cache_load", "cache_save"})

IsPrefix(p, q) == Len(p) <= Len(q) /\ SubSeq(q, 1, Len(p)) = p

Succeeded(outcome) == outcome.some /\ outcome.val.kind = "Ok"

\* C14: the external operations of a run occur in the order
\* summarize_changes, draft_ticket (on a cache miss only), create_ticket,
\* checkout_branch, each at most once, a later one only after every earlier
\* step succeeded; a run that returns Ok called create_ticket and
\* checkout_branch exactly once.
C14_LinearWorkflow ==
    wf.pc # "idle" =>
        LET ext == ExternalCalls(wf.calls)
            called(op) == \E i \in 1..Len(ext) : ext[i] = op
        IN  /\ \/ IsPrefix(ext, <<"summarize_changes", "draft_ticket",
                                  "create_ticket", "checkout_branch">>)
               \/ IsPrefix(ext, <<"summarize_changes", "create_ticket", "checkout_branch">>)
            /\ called("draft_ticket") =>
                  Succeeded(wf.summarized) /\ ~wf.hit /\ ~lookup(loaded_cache(wf.loaded.val),
                                                                 wf.cache_key.val).some
            /\ called("create_ticket") =>
                  /\ Succeeded(wf.summarized)
                  /\ wf.hit \/ Succeeded(wf.generated)
                  /\ wf.hit <=> ~called("draft_ticket")
                  /\ Trim(wf.draft.val.description) # <<>>
            /\ called("checkout_branch") =>
                  /\ called("create_ticket")
                  /\ Succeeded(wf.created)
                  /\ Trim(wf.draft.val.branch_summary) # <<>>
            /\ (wf.pc = "done" /\ wf.result.kind = "Ok") =>
                  /\ Cardinality({i \in 1..Len(wf.calls) : wf.calls[i] = "create_ticket"}) = 1
                  /\ Cardinality({i \in 1..Len(wf.calls) : wf.calls[i] = "checkout_branch"}) = 1
                  /\ Succeeded(wf.checked_out)

C14_Witness ==
    /\ wf.pc = "done"
    /\ wf.result.kind = "Ok"
    /\ wf.calls = <<"summarize_changes", "cache_load", "draft_ticket", "cache_save",
                    "create_ticket", "checkout_branch">>

\* C15: if the loaded cache holds an entry for the key of (summary,
\* files_changed, board), that entry is the draft of the run and
\* draft_ticket is not called; draft_ticket is called exactly when the cache
\* could not be loaded or holds no entry for the key.
C15_CacheHitSkipsDraft ==
    (wf.pc # "idle" /\ wf.loaded.some) =>
        LET changes == wf.changes.val
            key == compute_key(changes.summary, changes.files_changed, Some(wf.board))
            loaded == wf.loaded.val
            cached == IF loaded.kind = "Ok" THEN get(loaded.entries, key) ELSE None
            drafted == \E i \in 1..Len(wf.calls) : wf.calls[i] = "draft_ticket"
        IN  /\ cached.some => (wf.draft = cached /\ ~drafted /\ ~wf.generated.some)
            /\ drafted <=> (loaded.kind # "Ok" \/ ~cached.some)

C15_Witness ==
    /\ wf.pc = "done"
    /\ runs = 2
    /\ wf.hit
    /\ wf.loaded.val.kind = "Ok"
    /\ wf.calls = <<"summarize_changes", "cache_load", "create_ticket", "checkout_branch">>
    /\ wf.result.kind = "Ok"

\* what a finished run that generated its draft returns, from what its
\* collaborators returned to it
ResultOfGenerated(run) ==
    IF run.generated.val.kind # "Ok" THEN run.generated.val
    ELSE IF Trim(run.generated.val.draft.description) = <<>>
    THEN ErrMsg("LanguageModel", "language model returned an empty description")
    ELSE IF run.created.val.kind # "Ok" THEN run.created.val
    ELSE IF Trim(run.generated.val.draft.branch_summary) = <<>>
    THEN ErrMsg("LanguageModel", "language model returned an empty branch summary")
    ELSE IF run.checked_out.val.kind # "Ok" THEN run.checked_out.val
    ELSE [kind |-> "Ok",
          ticket |-> run.created.val.ticket,
          branch |-> from_parts(run.generated.val.draft.branch_category,
                                run.created.val.ticket.key,
                                Trim(run.generated.val.draft.branch_summary))]

\* C16: a cache that cannot be loaded (any error, a corrupt file too) does
\* not abort the run: draft_ticket is called and nothing is inserted or
\* saved; a save that fails does not abort it either; in both cases the run
\* returns what a run with a working, empty cache returns.
C16_CacheFailuresTolerated ==
    /\ (wf.pc # "idle" /\ wf.loaded.some /\ wf.loaded.val.kind # "Ok") =>
          /\ ~wf.cache.some
          /\ ~wf.saved.some
          /\ \A i \in 1..Len(wf.calls) : wf.calls[i] # "cache_save"
          /\ \E i \in 1..Len(wf.calls) : wf.calls[i] = "draft_ticket"
          /\ wf.pc = "done" => wf.result = ResultOfGenerated(wf)
    /\ (wf.pc # "idle" /\ wf.saved = Some("fails")) =>
          /\ wf.draft = Some(wf.generated.val.draft)
          /\ wf.pc = "done" => wf.result = ResultOfGenerated(wf)
    /\ (/\ wf.pc = "done"
        /\ wf.loaded.some
        /\ wf.loaded.val = [kind |-> "Ok", entries |-> <<>>]
        /\ wf.saved \in {None, Some("ok")}) => wf.result = ResultOfGenerated(wf)

C16_Witness ==
    /\ wf.pc = "done"
    /\ wf.loaded = Some(Err("Configuration"))
    /\ file = [state |-> "corrupt"]
    /\ wf.result.kind = "Ok"
    /\ wf.calls = <<"summarize_changes", "cache_load", "draft_ticket",
                    "create_ticket", "checkout_branch">>

\* C17: a resolved draft whose description is empty after trimming, from
\* the generator or from the cache, ends the run with a LanguageModel error;
\* create_ticket and checkout_branch are not invoked.
C17_EmptyDescriptionAborts ==
    (wf.pc # "idle" /\ wf.draft.some /\ Trim(wf.draft.val.description) = <<>>) =>
        /\ wf.pc = "done"
        /\ wf.result = ErrMsg("LanguageModel", "language model returned an empty description")
        /\ ~wf.created.some
        /\ ~wf.checked_out.some
        /\ \A i \in 1..Len(wf.calls) : wf.calls[i] \notin {"create_ticket", "checkout_branch"}

C17_Witness ==
    /\ wf.pc = "done"
    /\ wf.hit
    /\ wf.draft.some
    /\ Trim(wf.draft.val.description) = <<>>
    /\ wf.result.kind = "Err"
    /\ wf.calls = <<"summarize_changes", "cache_load">>

\* C18: a draft whose branch_summary is empty after trimming never reaches
\* checkout_branch; once create_ticket has returned a ticket the run ends
\* with a LanguageModel error, leaving the created ticket and no branch.
C18_EmptyBranchSummaryAborts ==
    (wf.pc # "idle" /\ wf.draft.some /\ Trim(wf.draft.val.branch_summary) = <<>>) =>
        /\ ~wf.checked_out.some
        /\ ~wf.branch.some
        /\ \A i \in 1..Len(wf.calls) : wf.calls[i] # "checkout_branch"
        /\ Succeeded(wf.created) =>
              /\ wf.pc = "done"
              /\ wf.result = ErrMsg("LanguageModel",
                                    "language model returned an empty branch summary")
              /\ wf.ticket = Some(wf.created.val.ticket)
              /\ tickets >= 1

C18_Witness ==
    /\ wf.pc = "done"
    /\ wf.draft.some
    /\ Trim(wf.draft.val.branch_summary) = <<>>
    /\ Succeeded(wf.created)
    /\ tickets = 1
    /\ head = None
    /\ wf.result.kind = "Err"

\* C19: an error returned by summarize_changes, draft_ticket, create_ticket
\* or checkout_branch is the result of the run, kind and message unchanged,
\* and no later step is executed.
C19_ErrorsPropagate ==
    /\ (wf.pc # "idle" /\ wf.summarized.some /\ wf.summarized.val.kind = "Err") =>
          /\ wf.pc = "done"
          /\ wf.result = wf.summarized.val
          /\ wf.calls = <<"summarize_changes">>
          /\ ~wf.loaded.some /\ ~wf.generated.some /\ ~wf.created.some /\ ~wf.checked_out.some
    /\ (wf.pc # "idle" /\ wf.generated.some /\ wf.generated.val.kind = "Err") =>
          /\ wf.pc = "done"
          /\ wf.result = wf.generated.val
          /\ wf.calls[Len(wf.calls)] = "draft_ticket"
          /\ ~wf.saved.some /\ ~wf.created.some /\ ~wf.checked_out.some
    /\ (wf.pc # "idle" /\ wf.created.some /\ wf.created.val.kind = "Err") =>
          /\ wf.pc = "done"
          /\ wf.result = wf.created.val
          /\ wf.calls[Len(wf.calls)] = "create_ticket"
          /\ ~wf.checked_out.some
    /\ (wf.pc # "idle" /\ wf.checked_out.some /\ wf.checked_out.val.kind = "Err") =>
          /\ wf.pc = "done"
          /\ wf.result = wf.checked_out.val
          /\ wf.calls[Len(wf.calls)] = "checkout_branch"
          /\ head # wf.branch

C19_Witness ==
    /\ wf.pc = "done"
    /\ wf.created = Some(ErrMsg("IssueTracker", "board is archived"))
    /\ wf.result = ErrMsg("IssueTracker", "board is archived")
    /\ wf.calls[Len(wf.calls)] = "create_ticket"

(***************************************************************************)
(* infra/git.rs and services/version_control.rs                            *)
(***************************************************************************)
\* longest output of git status a caller's work tree produces, in lines
MaxStatusLines == 9

Txt_Branch == <<"B","r","a","n","c","h"," ">>

Txt_no_changes == <<" ","h","a","s"," ","n","o"," ","u","n","c","o","m","m","i","t","t","e","d"," ","c","h","a","n","g","e","s",".">>

Txt_has == <<" ","h","a","s"," ">>

Txt_files_with_changes ==
    <<" ","f","i","l","e","(","s",")"," ","w","i","t","h"," ","l","o","c","a","l"," ","c","h","a","n","g","e","s",".">>

Txt_Diff_summary == <<"D","i","f","f"," ","s","u","m","m","a","r","y",":">>

\* the character U+2026, one character of the text
Ellipsis == "ELLIPSIS"

Txt_HEAD == <<"H","E","A","D">>

Txt_main == <<"m","a","i","n">>

\* str::lines followed by filter(|line| !line.trim().is_empty())
NonBlankLines(lines) == SelectSeq(lines, LAMBDA line : Trim(line) # <<>>)

\* GitCli::current_branch : the trimmed output of git rev-parse, if git ran
current_branch(rev_parse) ==
    IF rev_parse.kind = "Ok" THEN Some(Trim(rev_parse.stdout)) ELSE None

\* GitCli::summarize_changes : status is the outcome of git status --short,
\* diff that of git diff --stat, rev_parse that of git rev-parse
summarize_changes(status, diff, rev_parse) ==
    IF status.kind # "Ok"
    THEN ErrMsg("VersionControl", "git status --short failed")
    ELSE LET entries_ == NonBlankLines(status.lines)
             files_changed == Len(entries_)
             diff_stat == IF files_changed = 0 \/ diff.kind # "Ok" THEN <<>> ELSE diff.lines
             current == current_branch(rev_parse)
             branch == IF current.some THEN current.val ELSE Txt_HEAD
             diff_stat_lines == NonBlankLines(diff_stat)
             lines == <<Txt_Branch \o branch \o Txt_has \o ToDecimal(files_changed)
                            \o Txt_files_with_changes>>
                      \o [i \in 1..Len(Take(entries_, 8)) |-> <<" "," ">> \o entries_[i]]
                      \o (IF files_changed > 8 THEN << <<" "," ",Ellipsis>> >> ELSE <<>>)
                      \o (IF diff_stat_lines # <<>>
                          THEN <<<<>>, Txt_Diff_summary>>
                                   \o [i \in 1..Len(Take(diff_stat_lines, 8)) |->
                                          <<" "," ">> \o diff_stat_lines[i]]
                          ELSE <<>>)
             summary == IF files_changed = 0
                        THEN Txt_Branch \o branch \o Txt_no_changes
                        ELSE Join(lines, <<"\n">>)
         IN  [kind |-> "Ok",
              changes |-> [files_changed |-> files_changed, summary |-> summary]]

\* lines of git status --short: a modified file, a blank line
StatusLines == {<<" ","M"," ","a">>, <<" ">>}

\* outcomes of git diff --stat=200: it fails, prints nothing, prints a stat
DiffOutcomes ==
    {[kind |-> "Err"],
     [kind |-> "Ok", lines |-> <<>>],
     [kind |-> "Ok", lines |-> << <<" ","a"," ","|"," ","2">>, <<>>,
                                  <<" ","1"," ","f","i","l","e">> >>]}

\* outcomes of git rev-parse --abbrev-ref HEAD: it fails, a branch, detached
RevParseOutcomes ==
    {[kind |-> "Err"],
     [kind |-> "Ok", stdout |-> Txt_main \o <<"\n">>],
     [kind |-> "Ok", stdout |-> Txt_HEAD \o <<"\n">>]}

\* git status prints one more line
VcStatusLine ==
    /\ vc.op = "none"
    /\ Len(vc.status) < MaxStatusLines
    /\ \E line \in StatusLines : vc' = [vc EXCEPT !.status = Append(@, line)]
    /\ UNCHANGED <<br, entries, cop, fresh, overwrites, ck, dt, wfVars, hs, jr, instances>>

\* one call of GitCli::summarize_changes in that work tree
VcSummarizeChanges ==
    /\ vc.op = "none"
    /\ \E status \in {[kind |-> "Err"], [kind |-> "Ok", lines |-> vc.status]},
          diff \in DiffOutcomes, rev_parse \in RevParseOutcomes :
          vc' = [op |-> "summarize_changes", status |-> vc.status,
                 git_status |-> status.kind, rev_parse |-> rev_parse,
                 out |-> summarize_changes(status, diff, rev_parse)]
    /\ UNCHANGED <<br, entries, cop, fresh, overwrites, ck, dt, wfVars, hs, jr, instances>>

\* mutant: the slug is appended with a slash
format_branch_slash(strategy, ticket_key, slug) ==
    IF strategy.kind = "TicketKeyPrefix"
    THEN strategy.prefix \o <<"/">> \o ticket_key \o <<"/">> \o slug
    ELSE ticket_key \o <<"/">> \o slug

\* BranchingStrategy::format_branch
format_branch(strategy, ticket_key, slug) ==
    IF strategy.kind = "TicketKeyPrefix"
    THEN strategy.prefix \o <<"/">> \o ticket_key \o <<"-">> \o slug
    ELSE ticket_key \o <<"-">> \o slug

Txt_TCK_101 == <<"T","C","K","-","1","0","1">>

Txt_add_cli == <<"a","d","d","-","c","l","i">>

\* enum BranchingStrategy: the prefixes are the category names and one other
BranchingStrategies ==
    {[kind |-> "Raw"]}
        \cup {[kind |-> "TicketKeyPrefix", prefix |-> as_str(c)] : c \in BranchCategory}
        \cup {[kind |-> "TicketKeyPrefix", prefix |-> <<"w","i","p">>]}

VcTicketKeys == {Txt_TCK_101, TicketKeyNo(1), <<" ","T","C","K","-","7"," ">>}

VcSlugs == {Txt_add_cli, <<"f","i","x","-","l","o","g","i","n","-","b","u","g">>, <<>>}

VcSummaries == {Txt_fix_login_bug, <<"a","d","d","-","c","l","i">>, <<" ","A","d","d"," ","C","L","I","\n">>}

\* one call of BranchingStrategy::format_branch
VcFormatBranch ==
    /\ vc.op = "none"
    /\ vc.status = <<>>
    /\ \E strategy \in BranchingStrategies, ticket_key \in VcTicketKeys, slug \in VcSlugs :
          vc' = [op |-> "format_branch", status |-> <<>>, strategy |-> strategy,
                 ticket_key |-> ticket_key, slug |-> slug,
                 out |-> format_branch(strategy, ticket_key, slug)]
    /\ UNCHANGED <<br, entries, cop, fresh, overwrites, ck, dt, wfVars, hs, jr, instances>>

\* workflow/ticket.rs lines 66-68: a run names the branch of its ticket and
\* hands it to checkout_branch
VcCheckoutOfRun ==
    /\ vc.op = "none"
    /\ vc.status = <<>>
    /\ \E category \in BranchCategory, summary \in VcSummaries,
          key \in VcTicketKeys, git \in {"ok", "fails"} :
          LET draft == [title |-> <<"t">>, description |-> <<"d">>,
                        branch_category |-> category, branch_summary |-> summary]
              ticket == [key |-> key]
              branch == branch_name_of(draft, ticket)
          IN  vc' = [op |-> "checkout_branch", status |-> <<>>, draft |-> draft,
                     ticket |-> ticket, branch |-> branch,
                     out |-> checkout_branch(branch, git)]
    /\ UNCHANGED <<br, entries, cop, fresh, overwrites, ck, dt, wfVars, hs, jr, instances>>

VcInit == BrIdle /\ CacheIdle /\ KeyIdle /\ DraftIdle /\ HsIdle /\ JrIdle /\ VcIdle /\ InstIdle /\ WfIdle

NextVersionControl ==
    \/ VcStatusLine
    \/ VcSummarizeChanges
    \/ VcFormatBranch
    \/ VcCheckoutOfRun

SpecVersionControl == VcInit /\ [][NextVersionControl]_vars

(***************************************************************************)
(* Version control: properties                                             *)
(***************************************************************************)
\* C21: for a work tree without local changes GitCli::summarize_changes
\* reports files_changed = 0 and the empty summary.
C21_CleanTreeEmptySummary ==
    (/\ vc.op = "summarize_changes"
     /\ vc.out.kind = "Ok"
     /\ NonBlankLines(vc.status) = <<>>) =>
        vc.out.changes = [files_changed |-> 0, summary |-> <<>>]

\* the policies that give the name for the key and the summary of a run:
\* BranchName::from_parts, or a strategy applied to the key and the slug
PoliciesNaming(branch, draft, ticket) ==
    {p \in {"from_parts"} :
        branch = from_parts(draft.branch_category, ticket.key, Trim(draft.branch_summary))}
    \cup {strategy \in BranchingStrategies :
            \E key \in {ticket.key, Trim(ticket.key)},
               slug \in {slugify(draft.branch_summary), Trim(draft.branch_summary)} :
               branch = format_branch(strategy, key, slug)}

\* C25: format_branch returns prefix/ticket_key-slug for TicketKeyPrefix and
\* ticket_key-slug for Raw; the branch a run hands to checkout_branch is
\* named by exactly one policy.
C25_FormatBranch ==
    /\ (vc.op = "format_branch" /\ vc.strategy.kind = "TicketKeyPrefix") =>
          LET p == Len(vc.strategy.prefix)
              k == Len(vc.ticket_key)
          IN  /\ Len(vc.out) = p + k + Len(vc.slug) + 2
              /\ SubSeq(vc.out, 1, p) = vc.strategy.prefix
              /\ vc.out[p + 1] = "/"
              /\ SubSeq(vc.out, p + 2, p + 1 + k) = vc.ticket_key
              /\ vc.out[p + k + 2] = "-"
              /\ SubSeq(vc.out, p + k + 3, Len(vc.out)) = vc.slug
    /\ (vc.op = "format_branch" /\ vc.strategy.kind = "Raw") =>
          LET k == Len(vc.ticket_key)
          IN  /\ Len(vc.out) = k + Len(vc.slug) + 1
              /\ SubSeq(vc.out, 1, k) = vc.ticket_key
              /\ vc.out[k + 1] = "-"
              /\ SubSeq(vc.out, k + 2, Len(vc.out)) = vc.slug
    /\ (/\ vc.op = "format_branch"
        /\ vc.ticket_key = Txt_TCK_101
        /\ vc.slug = Txt_add_cli) =>
          /\ vc.strategy = [kind |-> "TicketKeyPrefix", prefix |-> as_str("Feature")] =>
                vc.out = <<"f","e","a","t","u","r","e","/","T","C","K","-","1","0","1","-","a","d","d","-","c","l","i">>
          /\ vc.strategy = [kind |-> "Raw"] =>
                vc.out = <<"T","C","K","-","1","0","1","-","a","d","d","-","c","l","i">>
    /\ vc.op = "checkout_branch" =>
          Cardinality(PoliciesNaming(vc.branch, vc.draft, vc.ticket)) = 1

C25_Witness ==
    /\ vc.op = "format_branch"
    /\ vc.strategy = [kind |-> "TicketKeyPrefix", prefix |-> as_str("Feature")]
    /\ vc.out = <<"f","e","a","t","u","r","e","/","T","C","K","-","1","0","1","-","a","d","d","-","c","l","i">>

(***************************************************************************)
(* Workflow: properties of the drafts and of the cache across runs         *)
(***************************************************************************)
\* C22: create_ticket is never invoked with a draft whose title, description
\* or branch_summary is empty after trimming, whether the draft comes from
\* the cache or from the language model.
C22_OnlyValidDraftsCreated ==
    (/\ wf.pc # "idle"
     /\ \E i \in 1..Len(wf.calls) : wf.calls[i] = "create_ticket") =>
        /\ Trim(wf.draft.val.title) # <<>>
        /\ Trim(wf.draft.val.description) # <<>>
        /\ Trim(wf.draft.val.branch_summary) # <<>>

\* C23: a run that loads the cache and has the summary, files_changed and
\* board of an earlier run that missed, generated a draft and saved the
\* cache gets that draft, equal in all four fields, and does not call
\* draft_ticket (fewer than 32 keys are inserted between the two runs).
C23_NoRegeneration ==
    (/\ wf.pc # "idle"
     /\ wf.loaded.some
     /\ wf.loaded.val.kind = "Ok"
     /\ runs <= CACHE_LIMIT) =>
        \A i \in 1..Len(wf.earlier) :
            LET e == wf.earlier[i]
            IN  (/\ e.run < runs
                 /\ e.changes = wf.changes.val
                 /\ e.board = wf.board) =>
                    /\ wf.hit
                    /\ wf.draft.some
                    /\ wf.draft.val.title = e.draft.title
                    /\ wf.draft.val.description = e.draft.description
                    /\ wf.draft.val.branch_category = e.draft.branch_category
                    /\ wf.draft.val.branch_summary = e.draft.branch_summary
                    /\ ~wf.generated.some
                    /\ \A j \in 1..Len(wf.calls) : wf.calls[j] # "draft_ticket"

C23_Witness ==
    /\ wf.pc = "done"
    /\ runs = 2
    /\ wf.loaded.some
    /\ wf.loaded.val.kind = "Ok"
    /\ Len(wf.earlier) = 1
    /\ wf.earlier[1].run = 1
    /\ wf.earlier[1].changes = wf.changes.val
    /\ wf.earlier[1].board = wf.board
    /\ wf.draft = Some(wf.earlier[1].draft)
    /\ wf.result.kind = "Ok"

(***************************************************************************)
(* BranchCategory parsing: properties                                      *)
(***************************************************************************)
\* text is the name of category written in any case
IsSpellingOf(text, category) ==
    /\ Len(text) = Len(as_str(category))
    /\ \A k \in 1..Len(text) : ToAsciiLowercase(text[k]) = as_str(category)[k]

\* text is a spelling of the name of category with white space around it
IsPaddedSpellingOf(text, category) ==
    \E i \in 1..(Len(text) + 1), j \in 0..Len(text) :
        /\ \A k \in 1..(i - 1) : IsWhitespace(text[k])
        /\ \A k \in (j + 1)..Len(text) : IsWhitespace(text[k])
        /\ i <= j
        /\ IsSpellingOf(SubSeq(text, i, j), category)

\* C24: from_str(as_str(c)) = Some(c) for each category; parsing ignores
\* case; every string that is not one of the three names, ignoring case,
\* parses to None.
C24_FromStrExact ==
    /\ br.op = "as_str" => br.out = Some(br.category)
    /\ br.op = "from_str" =>
          /\ \A c \in BranchCategory : IsSpellingOf(br.input, c) => br.out = Some(c)
          /\ (\A c \in BranchCategory : ~IsSpellingOf(br.input, c)) => br.out = None

\* C24 (amended): from_str(as_str(c)) = Some(c) for each category; parsing
\* ignores case and white space around the name; every string that is not
\* one of the three names, ignoring case and surrounding white space,
\* parses to None.
C24_FromStrTrimmed ==
    /\ br.op = "as_str" => br.out = Some(br.category)
    /\ br.op = "from_str" =>
          /\ \A c \in BranchCategory : IsPaddedSpellingOf(br.input, c) => br.out = Some(c)
          /\ (\A c \in BranchCategory : ~IsPaddedSpellingOf(br.input, c)) => br.out = None

C24_Witness ==
    /\ br.op = "from_str"
    /\ br.input = <<" ","F","I","X","\n">>
    /\ br.out = Some("Fix")

(***************************************************************************)
(* Draft generator: properties of the gates                                *)
(***************************************************************************)
\* the call returned and the model had written one JSON object with the
\* four members
AnsweredObject ==
    /\ dt.op = "draft_ticket"
    /\ dt.out.result.kind # "Panic"
    /\ dt.written.some
    /\ Len(dt.written.val) = 6
    /\ dt.written.val[1] = "{"
    /\ dt.written.val[6] = "}"
    /\ \A i \in 2..5 : dt.written.val[i] \in DOMAIN JsonText

\* the members of that object
WrittenDraft ==
    [title |-> JsonText[dt.written.val[2]],
     description |-> JsonText[dt.written.val[3]],
     branch_category |-> JsonText[dt.written.val[4]],
     branch_summary |-> JsonText[dt.written.val[5]]]

\* C26: an answer that passes every other gate and has a branch_summary that
\* is empty after trimming gives a draft with the model's trimmed title and
\* description, the parsed category, and the heuristic summary of the
\* ChangeSummary as branch_summary; it is not the heuristic draft.
C26_EmptySummarySubstituted ==
    \A c \in BranchCategory :
        (/\ AnsweredObject
         /\ IsPaddedSpellingOf(WrittenDraft.branch_category, c)
         /\ Trim(WrittenDraft.title) # <<>>
         /\ Trim(WrittenDraft.description) # <<>>
         /\ Trim(WrittenDraft.branch_summary) = <<>>) =>
            /\ dt.out.result =
                  Ok([title |-> Trim(WrittenDraft.title),
                      description |-> Trim(WrittenDraft.description),
                      branch_category |-> c,
                      branch_summary |-> heuristic_summary(dt.changes)])
            /\ ~dt.out.heuristic
            /\ dt.out.result.draft.title # heuristic_ticket(dt.changes).title

C26_Witness ==
    /\ AnsweredObject
    /\ dt.written = Some(<<"{","p","p","q","b","}">>)
    /\ dt.changes = [files_changed |-> 3, summary |-> Txt_fix_login_bug]
    /\ dt.out.result = Ok([title |-> <<"V","a","l">>,
                           description |-> <<"V","a","l">>,
                           branch_category |-> "Quality",
                           branch_summary |-> <<"f","i","x","-","l","o","g","i","n","-","b","u","g">>])

WhitespaceWords == {<<" ">>, <<"\t">>}

\* what is left of each typed word: ASCII letters, digits and hyphens, in
\* lower case
StrippedWord(w) ==
    CASE w = <<"f","i","x">> -> <<"f","i","x">>
      [] w = <<"B","u","g">> -> <<"b","u","g">>
      [] w = <<"E","R","R","O","R">> -> <<"e","r","r","o","r">>
      [] w = <<"P","r","e","F","I","X","e","d">> -> <<"p","r","e","f","i","x","e","d">>
      [] w = <<"r","e","f","a","c","t","o","r">> -> <<"r","e","f","a","c","t","o","r">>
      [] w = <<"C","l","e","a","n","u","p">> -> <<"c","l","e","a","n","u","p">>
      [] w = <<"D","O","C","S">> -> <<"d","o","c","s">>
      [] w = <<"c","h","o","r","e","s">> -> <<"c","h","o","r","e","s">>
      [] w = <<"a","d","d">> -> <<"a","d","d">>
      [] w = <<"-">> -> <<"-">>
      [] w = <<"V","2",".","0","_","é">> -> <<"v","2","0">>
      [] OTHER -> <<>>

\* the survivors of a sequence of typed words, joined with hyphens
RECURSIVE HyphenJoined(_)
HyphenJoined(typed) ==
    IF typed = <<>> THEN <<>>
    ELSE LET rest == HyphenJoined(Tail(typed))
             word == StrippedWord(Head(typed))
         IN  IF word = <<>> THEN rest
             ELSE IF rest = <<>> THEN word
             ELSE word \o <<"-">> \o rest

\* the slug of an empty summary
FilesSlug(files_changed) ==
    CASE files_changed = 0 -> Txt_pending_update
      [] files_changed = 1 -> <<"u","p","d","a","t","e","-","1","-","f","i","l","e","s">>
      [] files_changed = 3 -> <<"u","p","d","a","t","e","-","3","-","f","i","l","e","s">>
      [] files_changed = 12 -> <<"u","p","d","a","t","e","-","1","2","-","f","i","l","e","s">>

\* the slug of a summary with words in it
WordsSlug ==
    IF hs.from = "example" THEN hs.slug
    ELSE IF HyphenJoined(hs.sequence) = <<>> THEN Txt_pending_update
    ELSE HyphenJoined(hs.sequence)

SlugWellFormed(slug) ==
    /\ slug # <<>>
    /\ \A i \in 1..Len(slug) : slug[i] \in SlugChars

\* C28: the slug of an empty summary is pending-update when no file changed
\* and update-{files_changed}-files otherwise; the slug of a non-empty
\* summary is built from its first 8 words, stripped, lowercased, the empty
\* ones dropped, joined with hyphens, and is pending-update when none is
\* left; the slug is never empty and holds only lowercase ASCII letters,
\* digits and hyphens.
C28_SummarySlug ==
    hs.op = "heuristic_ticket" =>
        /\ hs.changes.summary = <<>> =>
              hs.out.branch_summary = FilesSlug(hs.changes.files_changed)
        /\ hs.changes.summary # <<>> => hs.out.branch_summary = WordsSlug
        /\ SlugWellFormed(hs.out.branch_summary)

\* C28 (amended): the same, with "empty" read as empty after trimming: a
\* summary of white space only has the slug of the empty summary.
C28_TrimmedSummarySlug ==
    hs.op = "heuristic_ticket" =>
        LET blank == \/ hs.from = "none"
                     \/ hs.from = "typing" /\ hs.typed \subseteq WhitespaceWords
        IN  /\ blank => hs.out.branch_summary = FilesSlug(hs.changes.files_changed)
            /\ ~blank => hs.out.branch_summary = WordsSlug
            /\ SlugWellFormed(hs.out.branch_summary)

C28_Witness ==
    /\ hs.op = "heuristic_ticket"
    /\ hs.from = "example"
    /\ hs.changes = [files_changed |-> 3, summary |-> Txt_marks_then_word]
    /\ Len(SplitWhitespace(hs.changes.summary)) = 9
    /\ hs.out.branch_summary = Txt_pending_update

(***************************************************************************)
(* cache.rs : a cache object and its file                                  *)
(***************************************************************************)
DraftQ ==
    [title |-> <<"T","i","d","y">>, description |-> <<"d","3">>,
     branch_category |-> "Quality", branch_summary |-> <<"z">>]

CfDrafts == {DraftA, DraftB, DraftQ}

CfKeys == {CacheKey(1), CacheKey(2)}

\* an entry of a cache file written by another version or by hand
StoredEntry(key, branch_category) ==
    [key |-> key,
     title |-> <<" ","O","l","d"," ">>,
     description |-> <<"d","0","\n">>,
     branch_category |-> branch_category,
     branch_summary |-> <<"O","l","d","-","w">>]

\* the category texts of such entries: names of categories, one of them in
\* another spelling, and texts that name no category
StoredCategories ==
    {<<"f","i","x">>, <<" ","F","I","X","\n">>, <<"q","u","a","l","i","t","y">>,
     <<"b","u","g","f","i","x">>, <<"h","o","t","f","i","x">>, <<>>}

\* the states of the cache file: absent, no cache document, a document
FileDocuments ==
    {[state |-> "missing"], [state |-> "corrupt"], [state |-> "ok", entries |-> <<>>]}
        \cup {[state |-> "ok", entries |-> <<StoredEntry(CacheKey(1), c)>>] :
                 c \in StoredCategories}
        \cup {[state |-> "ok",
               entries |-> <<StoredEntry(CacheKey(2), <<"b","u","g","f","i","x">>),
                             StoredEntry(CacheKey(1), <<"f","i","x">>)>>]}

\* what the file system does on a read
ReadEnvs == {"ok", "read_error", "no_config_dir"}

\* TicketDraftCache::load is called
CfLoad ==
    /\ \E env \in ReadEnvs :
          \E loaded \in {load(file, env)} :
             /\ cop' = [op |-> "load", env |-> env, disk |-> file, out |-> loaded,
                        cache |-> loaded.kind = "Ok"]
             /\ entries' = IF loaded.kind = "Ok" THEN loaded.entries ELSE <<>>
    /\ UNCHANGED <<file, fresh, overwrites, br, ck, dt, wf, runs, tickets, head, hs, jr, vc, instances>>

\* get is called on the loaded cache
CfGet ==
    /\ cop.op # "none"
    /\ cop.cache
    /\ \E key \in CfKeys :
          /\ cop' = [op |-> "get", key |-> key, result |-> get(entries, key),
                     after |-> IF cop.op = "insert"
                               THEN Some([key |-> cop.key, draft |-> cop.draft])
                               ELSE None,
                     cache |-> TRUE]
          /\ entries' = get_self(entries, key)
    /\ UNCHANGED <<file, fresh, overwrites, br, ck, dt, wf, runs, tickets, head, hs, jr, vc, instances>>

\* insert is called on the loaded cache
CfInsert ==
    /\ cop.op # "none"
    /\ cop.cache
    /\ \E key \in CfKeys, draft \in CfDrafts :
          /\ cop' = [op |-> "insert", key |-> key, draft |-> draft, cache |-> TRUE]
          /\ entries' = insert(entries, key, draft)
    /\ UNCHANGED <<file, fresh, overwrites, br, ck, dt, wf, runs, tickets, head, hs, jr, vc, instances>>

\* save is called on the loaded cache
CfSave ==
    /\ cop.op # "none"
    /\ cop.cache
    /\ \E env \in {"ok", "fails"} :
          /\ cop' = [op |-> "save", env |-> env, cache |-> TRUE]
          /\ file' = save(file, entries, env)
    /\ UNCHANGED <<entries, fresh, overwrites, br, ck, dt, wf, runs, tickets, head, hs, jr, vc, instances>>

CfInit ==
    /\ BrIdle /\ CacheIdle /\ KeyIdle /\ DraftIdle /\ HsIdle /\ JrIdle /\ VcIdle /\ InstIdle
    /\ wf = [pc |-> "idle"]
    /\ runs = 0
    /\ file \in FileDocuments
    /\ tickets = 0
    /\ head = None

NextCacheFile ==
    \/ CfLoad
    \/ CfGet
    \/ CfInsert
    \/ CfSave

SpecCacheFile == CfInit /\ [][NextCacheFile]_vars

(***************************************************************************)
(* Cache object and file: properties                                       *)
(***************************************************************************)
\* C29: load returns an empty cache when the file does not exist, a
\* Configuration error when the file exists and is no cache document, an Io
\* error when the read fails in another way, and never changes the file.
C29_LoadOutcomes ==
    cop.op = "load" =>
        /\ file = cop.disk
        /\ (cop.env = "ok" /\ cop.disk.state = "missing") =>
              /\ cop.out = [kind |-> "Ok", entries |-> <<>>]
              /\ entries = <<>>
        /\ (cop.env = "ok" /\ cop.disk.state = "corrupt") =>
              /\ cop.out = Err("Configuration")
              /\ ~cop.cache
        /\ cop.env = "read_error" => cop.out = Err("Io")

C29_Witness ==
    /\ cop.op = "load"
    /\ cop.env = "ok"
    /\ cop.disk = [state |-> "corrupt"]
    /\ file = [state |-> "corrupt"]
    /\ cop.out = Err("Configuration")

\* the first stored entry of the key the last get looked up
GotEntry == entries[SetMin({i \in 1..Len(entries) : entries[i].key = cop.key})]

\* C30: get of a key whose stored branch_category names no category returns
\* a draft with category Feature and the stored title, description and
\* branch_summary; get(k) just after insert(k, d) returns d.
C30_GetDecodes ==
    /\ (/\ cop.op = "get"
        /\ \E i \in 1..Len(entries) : entries[i].key = cop.key
        /\ \A c \in BranchCategory : ~IsPaddedSpellingOf(GotEntry.branch_category, c)) =>
           cop.result = Some([title |-> GotEntry.title,
                              description |-> GotEntry.description,
                              branch_category |-> "Feature",
                              branch_summary |-> GotEntry.branch_summary])
    /\ (/\ cop.op = "get"
        /\ cop.after.some
        /\ cop.after.val.key = cop.key) =>
           cop.result = Some(cop.after.val.draft)

C30_Witness ==
    /\ cop.op = "get"
    /\ cop.key = CacheKey(2)
    /\ Len(entries) = 2
    /\ entries[1] = StoredEntry(CacheKey(2), <<"b","u","g","f","i","x">>)
    /\ cop.result = Some([title |-> <<" ","O","l","d"," ">>,
                          description |-> <<"d","0","\n">>,
                          branch_category |-> "Feature",
                          branch_summary |-> <<"O","l","d","-","w">>])

C30_RoundTripWitness ==
    /\ cop.op = "get"
    /\ cop.after = Some([key |-> CacheKey(1), draft |-> DraftQ])
    /\ cop.key = CacheKey(1)
    /\ cop.result = Some(DraftQ)
    /\ Len(entries) = 2

(***************************************************************************)
(* Draft generator: extraction of the JSON candidate                       *)
(***************************************************************************)
\* the text draft_ticket takes from the reply the model wrote
AnswerText == candidate_text(dt.response.payload.val).val

\* C33: for every text the model returns, normalize_json_blob returns a
\* string, and draft_ticket ends in the model draft or the heuristic draft.
C33_ExtractionTotal ==
    (/\ dt.op = "draft_ticket"
     /\ dt.written.some
     /\ candidate_text(dt.response.payload.val).some) =>
        /\ ~normalize_json_blob(AnswerText).panic
        /\ dt.out.result.kind = "Ok"
        /\ \/ dt.out.heuristic /\ dt.out.result.draft = heuristic_ticket(dt.changes)
           \/ ~dt.out.heuristic /\ parse_gemini_draft(normalize_json_blob(AnswerText).val).some

(***************************************************************************)
(* Workflow: properties of the cache file within a run                     *)
(***************************************************************************)
\* how often a run has made a call
Occurrences(calls, call) == Cardinality({i \in 1..Len(calls) : calls[i] = call})

\* the positions of a call in the calls of a run
PositionsOf(calls, call) == {i \in 1..Len(calls) : calls[i] = call}

\* what holds in every state of a run about its reads and writes
CacheFileAccess ==
    wf.pc # "idle" =>
        /\ Occurrences(wf.calls, "cache_load") <= 1
        /\ Occurrences(wf.calls, "cache_save") <= 1
        /\ Occurrences(wf.calls, "cache_save") = 1 =>
              /\ ~wf.hit
              /\ Succeeded(wf.loaded)
              /\ Succeeded(wf.generated)
              /\ \A l \in PositionsOf(wf.calls, "cache_load"),
                    d \in PositionsOf(wf.calls, "draft_ticket"),
                    w \in PositionsOf(wf.calls, "cache_save") : l < d /\ d < w
              /\ wf.cache.some
              /\ wf.cache.val # <<>>
              /\ wf.cache.val[Len(wf.cache.val)] =
                     CacheEntryOf(wf.cache_key.val, wf.generated.val.draft)
        /\ (wf.hit \/ ~Succeeded(wf.loaded) \/ ~Succeeded(wf.generated)) =>
              Occurrences(wf.calls, "cache_save") = 0

\* what holds of every step that changes the file
CacheFileWrite ==
    file' # file =>
        /\ wf.pc = "draft"
        /\ ~wf.hit
        /\ Succeeded(wf.loaded)
        /\ Succeeded(wf'.generated)
        /\ wf'.saved = Some("ok")
        /\ Occurrences(wf.calls, "cache_save") = 0
        /\ file' = [state |-> "ok", entries |-> wf'.cache.val]
        /\ wf'.cache.val = insert(wf.cache.val, wf.cache_key.val, wf'.generated.val.draft)

\* C31: a run reads the cache file at most once and writes it at most once;
\* it writes only after a miss, the generator's draft and the insert, never
\* on a hit, after a failed load or after an error of draft_ticket; a write
\* replaces the file by the entries in memory.
C31_CacheFileOnce == [](CacheFileAccess) /\ [][CacheFileWrite]_vars

C31_Witness ==
    /\ wf.pc = "done"
    /\ runs = 2
    /\ wf.saved = Some("ok")
    /\ Occurrences(wf.calls, "cache_load") = 1
    /\ Occurrences(wf.calls, "cache_save") = 1
    /\ Len(wf.cache.val) = 2
    /\ file = [state |-> "ok", entries |-> wf.cache.val]

(***************************************************************************)
(* Workflow: heuristic drafts in the cache                                 *)
(***************************************************************************)
\* C34: when the model call fails in a run that missed, the heuristic draft
\* is inserted and saved under the key of the run, and a later run with the
\* same summary, files_changed and board that loads the cache reuses it and
\* does not call draft_ticket (the entry is not evicted in between).
C34_HeuristicDraftCached ==
    wf.pc # "idle" =>
        /\ (/\ wf.lm.some
            /\ ModelCallFailed(wf.lm.val)
            /\ Succeeded(wf.loaded)) =>
               /\ ~wf.hit
               /\ wf.generated = Some(Ok(heuristic_ticket(wf.changes.val)))
               /\ get(wf.cache.val, wf.cache_key.val) = Some(heuristic_ticket(wf.changes.val))
               /\ Occurrences(wf.calls, "cache_save") = 1
               /\ wf.saved = Some("ok") =>
                     /\ file.state = "ok"
                     /\ get(file.entries, wf.cache_key.val)
                            = Some(heuristic_ticket(wf.changes.val))
        /\ (Succeeded(wf.loaded) /\ runs <= CACHE_LIMIT) =>
              \A i \in 1..Len(wf.earlier) :
                  LET e == wf.earlier[i]
                  IN  (/\ e.failed
                       /\ e.run < runs
                       /\ e.changes = wf.changes.val
                       /\ e.board = wf.board) =>
                          /\ wf.hit
                          /\ wf.draft = Some(heuristic_ticket(wf.changes.val))
                          /\ ~wf.lm.some
                          /\ ~wf.generated.some
                          /\ Occurrences(wf.calls, "draft_ticket") = 0

C34_Witness ==
    /\ wf.pc = "done"
    /\ runs = 2
    /\ wf.hit
    /\ Len(wf.earlier) = 1
    /\ wf.earlier[1].failed
    /\ wf.earlier[1].changes = [files_changed |-> 3, summary |-> Txt_fix_login_bug]
    /\ wf.changes = Some(wf.earlier[1].changes)
    /\ wf.board = wf.earlier[1].board
    /\ wf.draft = Some(heuristic_ticket(wf.changes.val))
    /\ Occurrences(wf.calls, "draft_ticket") = 0
    /\ wf.result.kind = "Ok"

(***************************************************************************)
(* Workflow: the cache is written before the later steps                   *)
(***************************************************************************)
EmptyDescriptionError ==
    ErrMsg("LanguageModel", "language model returned an empty description")

\* C35: on a miss the generated draft is inserted and saved before the
\* description check, create_ticket and checkout_branch, so the file holds
\* the draft also when one of these fails; a later run with the same inputs
\* takes the cached path, and with a cached draft without a description it
\* returns the empty-description error without calling draft_ticket.
C35_SavedBeforeLaterSteps ==
    wf.pc # "idle" =>
        /\ (Succeeded(wf.generated) /\ Succeeded(wf.loaded)) =>
              /\ Occurrences(wf.calls, "cache_save") = 1
              /\ \A w \in PositionsOf(wf.calls, "cache_save"),
                    c \in PositionsOf(wf.calls, "create_ticket")
                            \cup PositionsOf(wf.calls, "checkout_branch") : w < c
              /\ get(wf.cache.val, wf.cache_key.val) = Some(wf.generated.val.draft)
              /\ wf.saved = Some("ok") =>
                    /\ file.state = "ok"
                    /\ get(file.entries, wf.cache_key.val) = Some(wf.generated.val.draft)
        /\ (Succeeded(wf.loaded) /\ runs <= CACHE_LIMIT) =>
              \A i \in 1..Len(wf.earlier) :
                  LET e == wf.earlier[i]
                  IN  (/\ e.run < runs
                       /\ e.changes = wf.changes.val
                       /\ e.board = wf.board) =>
                          /\ wf.hit
                          /\ wf.draft = Some(e.draft)
                          /\ Occurrences(wf.calls, "draft_ticket") = 0
                          /\ Trim(e.draft.description) = <<>> =>
                                /\ wf.pc = "done"
                                /\ wf.result = EmptyDescriptionError
                                /\ wf.calls = <<"summarize_changes", "cache_load">>

\* a run that fails at create_ticket after it saved its draft
C35_SavedWitness ==
    /\ wf.pc = "done"
    /\ Succeeded(wf.generated)
    /\ wf.saved = Some("ok")
    /\ wf.created.some
    /\ wf.created.val.kind = "Err"
    /\ wf.result.kind = "Err"
    /\ get(file.entries, wf.cache_key.val) = Some(wf.generated.val.draft)

C35_Witness ==
    /\ wf.pc = "done"
    /\ runs = 2
    /\ wf.hit
    /\ Len(wf.earlier) = 1
    /\ wf.changes = Some(wf.earlier[1].changes)
    /\ wf.board = wf.earlier[1].board
    /\ Trim(wf.earlier[1].draft.description) = <<>>
    /\ wf.result = EmptyDescriptionError
    /\ wf.calls = <<"summarize_changes", "cache_load">>

(***************************************************************************)
(* Workflow: tickets are never withdrawn or reused                         *)
(***************************************************************************)
EmptyBranchSummaryError ==
    ErrMsg("LanguageModel", "language model returned an empty branch summary")

\* what holds in every state of a run about the tickets created so far
TicketsCounted ==
    wf.pc # "idle" =>
        /\ tickets = Len(wf.tickets_created)
        /\ \A i, j \in 1..Len(wf.tickets_created) :
              i # j => wf.tickets_created[i] # wf.tickets_created[j]
        /\ Succeeded(wf.created) =>
              /\ wf.tickets_created # <<>>
              /\ wf.created.val.ticket.key = wf.tickets_created[Len(wf.tickets_created)]
        /\ (wf.pc = "done" /\ Succeeded(wf.created) /\ wf.result.kind = "Err") =>
              /\ wf.result \in {EmptyBranchSummaryError}
                                  \cup (IF wf.checked_out.some THEN {wf.checked_out.val} ELSE {})
              /\ DOMAIN wf.result = {"kind", "error", "message"}
              /\ wf.branch.some => head # wf.branch
        /\ (wf.hit /\ Trim(wf.draft.val.description) # <<>>) =>
              Occurrences(wf.calls, "create_ticket") = 1

\* what holds of every step: tickets are only added, one by each successful
\* create_ticket, and the step in which a run fails after its ticket was
\* created changes neither the tickets, nor the cache file, nor the branch
TicketsStep ==
    /\ tickets' >= tickets
    /\ tickets' # tickets =>
          /\ wf.pc = "create"
          /\ Succeeded(wf'.created)
          /\ tickets' = tickets + 1
    /\ (wf.pc = "create" /\ Succeeded(wf'.created)) => tickets' = tickets + 1
    /\ (wf.pc = "checkout" /\ wf'.result.kind = "Err") =>
          /\ tickets' = tickets
          /\ file' = file
          /\ head' = head
          /\ wf'.tickets_created = wf.tickets_created

\* C36: a run that fails after create_ticket succeeded returns only the
\* error and withdraws or records nothing; a re-run with the same inputs,
\* also when served from the cache, calls create_ticket again; the number of
\* tickets equals the number of successful create_ticket calls.
C36_TicketsNeverUndone == [](TicketsCounted) /\ [][TicketsStep]_vars

C36_Witness ==
    /\ wf.pc = "done"
    /\ runs = 2
    /\ wf.hit
    /\ Len(wf.earlier) = 1
    /\ wf.changes = Some(wf.earlier[1].changes)
    /\ wf.board = wf.earlier[1].board
    /\ Succeeded(wf.created)
    /\ wf.checked_out = Some(ErrMsg("VersionControl", "git checkout failed"))
    /\ wf.result = ErrMsg("VersionControl", "git checkout failed")
    /\ tickets = 2
    /\ Len(wf.tickets_created) = 2

(***************************************************************************)
(* workflow/ticket.rs, cache.rs : two instances on one cache file          *)
(***************************************************************************)
TwoRuns == {1, 2}

\* an instance before line 24
InstanceStart == [pc |-> "start"]

\* lines 22-34 of instance p: the cache is loaded and looked up
InstLoad(p) ==
    /\ instances.run[p].pc = "start"
    /\ \E key \in CfKeys, env \in ReadEnvs :
          \E loaded \in {load(file, env)} :
             \E cache \in {loaded_cache(loaded)} :
                instances' =
                    [run |-> [instances.run EXCEPT ![p] =
                                 [pc |-> IF lookup(cache, key).some THEN "done" ELSE "draft",
                                  key |-> key,
                                  cache |-> cache,
                                  hit |-> lookup(cache, key).some,
                                  saved |-> None]],
                     log |-> Append(instances.log, [op |-> "load", by |-> p])]
    /\ UNCHANGED <<file, entries, cop, fresh, overwrites, br, ck, dt, wf, runs, tickets, head,
                   hs, jr, vc>>

\* lines 37-46 of instance p: draft_ticket returned a draft; it is inserted
\* and the cache saved if there is a cache
InstDrafted(p) ==
    /\ instances.run[p].pc = "draft"
    /\ \E draft \in CfDrafts, env \in {"ok", "fails"} :
          LET run == instances.run[p]
          IN  IF run.cache.some
              THEN \E es \in {insert(run.cache.val, run.key, draft)} :
                      /\ file' = save(file, es, env)
                      /\ instances' =
                            [run |-> [instances.run EXCEPT ![p] =
                                         [run EXCEPT !.pc = "done",
                                                     !.cache = Some(es),
                                                     !.saved = Some(env)]],
                             log |-> Append(instances.log, [op |-> "save", by |-> p])]
              ELSE /\ file' = file
                   /\ instances' =
                         [instances EXCEPT !.run[p] = [run EXCEPT !.pc = "done"]]
    /\ UNCHANGED <<entries, cop, fresh, overwrites, br, ck, dt, wf, runs, tickets, head,
                   hs, jr, vc>>

InstLoads == \E p \in TwoRuns : InstLoad(p)

InstDraftReturns == \E p \in TwoRuns : InstDrafted(p)

InstInit ==
    /\ BrIdle /\ CacheIdle /\ KeyIdle /\ DraftIdle /\ HsIdle /\ JrIdle /\ VcIdle
    /\ wf = [pc |-> "idle"]
    /\ runs = 0
    /\ file \in FileDocuments
    /\ tickets = 0
    /\ head = None
    /\ instances = [run |-> [p \in TwoRuns |-> InstanceStart], log |-> <<>>]

NextInstances ==
    \/ InstLoads
    \/ InstDraftReturns

SpecInstances == InstInit /\ [][NextInstances]_vars

(***************************************************************************)
(* Two instances: properties                                               *)
(***************************************************************************)
\* the positions in the log of the loads and of the saves
LogPositions(op) == {i \in 1..Len(instances.log) : instances.log[i].op = op}

\* both instances loaded before either saved, inserted different keys and
\* saved
BothLoadedThenSaved ==
    /\ instances # <<>>
    /\ \A p \in TwoRuns : instances.run[p].pc = "done" /\ instances.run[p].saved = Some("ok")
    /\ instances.run[1].key # instances.run[2].key
    /\ \A l \in LogPositions("load"), w \in LogPositions("save") : l < w

\* the instance that saved last
LastWriter == instances.log[SetMax(LogPositions("save"))].by

\* C32: when two runs load the file before either saves, insert different
\* keys and save, the file is exactly the entry sequence of the run that
\* saved last, and the entry of the other run is not in it.
C32_LastWriterWins ==
    BothLoadedThenSaved =>
        LET last == instances.run[LastWriter]
            other == instances.run[3 - LastWriter]
        IN  /\ file = [state |-> "ok", entries |-> last.cache.val]
            /\ last.key \in KeysOf(file.entries)
            /\ other.key \notin KeysOf(file.entries)
            /\ get(file.entries, other.key) = None
            /\ other.key \in KeysOf(other.cache.val)

C32_Witness ==
    /\ BothLoadedThenSaved
    /\ LastWriter = 2
    /\ instances.run[1].key = CacheKey(1)
    /\ instances.run[2].key = CacheKey(2)
    /\ instances.run[1].cache = Some(<<CacheEntryOf(CacheKey(1), DraftA)>>)
    /\ file = [state |-> "ok", entries |-> <<CacheEntryOf(CacheKey(2), DraftB)>>]

====
